---- MODULE Spec2Model ----
(***************************************************************************)
(* Smart Doc Assistant: the retrieval / caching / persistence pipeline.    *)
(*                                                                         *)
(* The model follows the Node.js sources: the SQLite store (SQLLiteDB),    *)
(* the embedding file store, the prompt cache, the similarity search, the  *)
(* RAG orchestrator (RAGService.processPrompt with a document reference)   *)
(* and document processing (processPdf / generateChunkEmbeddings).         *)
(*                                                                         *)
(* The source tree holds files of several revisions, so some call sites    *)
(* pass their arguments in another order than the callee declares them.    *)
(* Calls are bound by the role of the argument: the embeddingDocId names   *)
(* the EmbeddingSet file that is loaded or saved.                          *)
(*                                                                         *)
(* Strings are sequences of one-character strings where their content      *)
(* matters (prompts); ids and chunk texts are atoms.  uuidv4 is a fresh    *)
(* counter value and md5 is taken to be injective.                         *)
(***************************************************************************)
EXTENDS Integers, Sequences, FiniteSets, TLC

(***************************************************************************)
(* Bounds of the model.                                                    *)
(***************************************************************************)
MaxCalls == 2      \* processPrompt invocations in one behaviour
MaxClock == 1      \* seconds that can pass (datetime('now') has 1 s resolution)
MaxJobs == 3       \* document-processing invocations in one behaviour
MaxCrashes == 1    \* process crashes / restarts in one behaviour

RSlots == {1, 2}   \* concurrently running processPrompt requests
USlots == {1, 2}   \* concurrently running document-processing requests

(***************************************************************************)
(* Strings: prompts as character sequences.                                *)
(***************************************************************************)
Prompts == { <<"a">>, <<" ", "A">>, <<"b">> }

\* JS String.prototype.toLowerCase / SQL LOWER on the characters used here
toLowerChar(ch) == IF ch = "A" THEN "a" ELSE IF ch = "B" THEN "b" ELSE ch

toLowerCase(s) == [i \in DOMAIN s |-> toLowerChar(s[i])]

RECURSIVE stripLeft(_, _)
stripLeft(s, ws) ==
    IF s # <<>> /\ Head(s) \in ws THEN stripLeft(Tail(s), ws) ELSE s

RECURSIVE stripRight(_, _)
stripRight(s, ws) ==
    IF s # <<>> /\ s[Len(s)] \in ws
    THEN stripRight(SubSeq(s, 1, Len(s) - 1), ws) ELSE s

\* SQL TRIM(X) removes spaces only
sqlTrim(s) == stripRight(stripLeft(s, {" "}), {" "})

\* JS String.prototype.trim removes all white space
jsTrim(s) == stripRight(stripLeft(s, {" ", "\t", "\n"}), {" ", "\t", "\n"})

\* LOWER(TRIM(prompt)) of findQueryByPrompt
sqlNormalize(s) == toLowerCase(sqlTrim(s))

\* a key taken from the prompt as it was typed
generatePromptKey_exact(prompt) == prompt

\* prompt.toLowerCase().trim() of generatePromptKey; md5 is injective here,
\* so the key is the normalized text itself
generatePromptKey(prompt) == jsTrim(toLowerCase(prompt))

(***************************************************************************)
(* Embedding values.  An embedding is a JS array; what matters to the      *)
(* scoring code is its first element: an object with a `values` array      *)
(* (provider result), an object with only an `embedding` property (static  *)
(* chunk test data) or itself an array (the prompt placeholder).           *)
(***************************************************************************)
\* what the embedding provider answers for a text (embedContent(...).embeddings)
VecOf(t) ==
    CASE t = "t1" -> <<1, 0, 0>>
      [] t = "t2" -> <<0, 1, 0>>
      [] t = "t3" -> <<1, 1, 0>>
      [] OTHER    -> <<0, 1, 1>>

providerEmbedding(t) == << [tag |-> "values", nums |-> VecOf(t)] >>

\* [{ embedding: [0.1, 0.2, 0.3] }]  (numbers scaled by 10)
staticChunkEmbedding == << [tag |-> "embedding", nums |-> <<1, 2, 3>>] >>

\* [[{ "values": [0.1, 0.2, 0.3] }]]
promptPlaceholder == << [tag |-> "array", nums |-> <<1, 2, 3>>] >>

(***************************************************************************)
(* Query Store and Document Store (SQLLiteDB).  A table is the sequence of *)
(* its rows in rowid (insertion) order.                                    *)
(***************************************************************************)
\* a generator that repeats itself: every call returns the same value
uuidv4_repeated(n) == 1

\* uuidv4(): a value no earlier call returned
uuidv4(n) == n

queryRow(id, prompt, answer, now) ==
    [queryId |-> id, prompt |-> prompt, answer |-> answer, createdAt |-> now,
     liked |-> 0, disliked |-> 0, isDeleted |-> 0]

rowsOf(table) == {table[i] : i \in DOMAIN table}

\* PRIMARY KEY constraint of INSERT INTO user_queries
primaryKeyConflict(table, id) == \E r \in rowsOf(table) : r.queryId = id

\* SELECT ... WHERE queryId = ? AND isDeleted = 0   (empty set: null)
getQueryById(table, id) ==
    {r \in rowsOf(table) : r.queryId = id /\ r.isDeleted = 0}

\* SELECT ... WHERE LOWER(TRIM(prompt)) = LOWER(TRIM(?)) AND isDeleted = 0
\* ORDER BY createdAt DESC LIMIT 1.  Rows with equal createdAt are in no
\* specified order: any of them can be the one returned (empty set: null).
findQueryByPrompt(table, prompt) ==
    LET match == {r \in rowsOf(table) :
                     /\ sqlNormalize(r.prompt) = sqlNormalize(prompt)
                     /\ r.isDeleted = 0}
    IN  {r \in match : \A o \in match : o.createdAt <= r.createdAt}

\* UPDATE user_queries SET isDeleted = 1 WHERE queryId = ? AND isDeleted = 0
deleteQuery(table, id) ==
    [i \in DOMAIN table |->
        IF table[i].queryId = id /\ table[i].isDeleted = 0
        THEN [table[i] EXCEPT !.isDeleted = 1] ELSE table[i]]

\* an insert that stores the prompt lower-cased and trimmed
insertQuery_normalizing(table, id, prompt, answer, now) ==
    Append(table, queryRow(id, sqlNormalize(prompt), answer, now))

\* INSERT INTO user_queries (queryId, prompt, answer, createdAt)
\* VALUES (?, ?, ?, datetime('now'))
insertQuery(table, id, prompt, answer, now) ==
    Append(table, queryRow(id, prompt, answer, now))

notDeleted_all(table) == table

\* the rows a SELECT ... WHERE isDeleted = 0 sees, in rowid order
notDeleted(table) == SelectSeq(table, LAMBDA r : r.isDeleted = 0)

\* the orders ORDER BY createdAt DESC allows: rows of equal createdAt come
\* in no specified order
descendingOrders(rows) ==
    {f \in [DOMAIN rows -> DOMAIN rows] :
        /\ \A i, j \in DOMAIN rows : i # j => f[i] # f[j]
        /\ \A i, j \in DOMAIN rows :
             i < j => rows[f[i]].createdAt >= rows[f[j]].createdAt}

QueryListLimit == 10

\* SELECT ... WHERE isDeleted = 0 ORDER BY createdAt DESC LIMIT 10: the
\* results the statement can give
getAllQueries(table) ==
    LET rows == notDeleted(table)
        shown == IF Len(rows) < QueryListLimit THEN Len(rows) ELSE QueryListLimit
    IN  {[i \in 1..shown |-> rows[f[i]]] : f \in descendingOrders(rows)}

\* the values a feedback request body holds for liked / disliked
FeedbackValues == {"undefined", "true", "false"}

\* liked !== undefined ? (liked ? 1 : 0) : null   (<<>> is null)
feedbackParameter(value) ==
    IF value = "undefined" THEN <<>> ELSE IF value = "true" THEN <<1>> ELSE <<0>>

\* SQL COALESCE(?, column)
COALESCE(parameter, stored) == IF parameter = <<>> THEN stored ELSE parameter[1]

\* an update that writes 0 for a flag the request did not supply
updateQueryFeedback_overwriting(table, id, liked, disliked) ==
    [i \in DOMAIN table |->
        IF table[i].queryId = id /\ table[i].isDeleted = 0
        THEN [table[i] EXCEPT !.liked = IF liked = "true" THEN 1 ELSE 0,
                              !.disliked = IF disliked = "true" THEN 1 ELSE 0]
        ELSE table[i]]

\* an update that also clears the answer
updateQueryFeedback_clearing(table, id, liked, disliked) ==
    [i \in DOMAIN table |->
        IF table[i].queryId = id /\ table[i].isDeleted = 0
        THEN [table[i] EXCEPT !.answer = ""]
        ELSE table[i]]

\* an update that keeps the two flags exclusive: setting one clears the other
updateQueryFeedback_exclusive(table, id, liked, disliked) ==
    [i \in DOMAIN table |->
        IF table[i].queryId = id /\ table[i].isDeleted = 0
        THEN [table[i] EXCEPT
                 !.liked = IF disliked = "true" THEN 0
                           ELSE COALESCE(feedbackParameter(liked), @),
                 !.disliked = IF liked = "true" THEN 0
                              ELSE COALESCE(feedbackParameter(disliked), @)]
        ELSE table[i]]

\* UPDATE user_queries SET liked = COALESCE(?, liked),
\* disliked = COALESCE(?, disliked) WHERE queryId = ? AND isDeleted = 0
updateQueryFeedback(table, id, liked, disliked) ==
    [i \in DOMAIN table |->
        IF table[i].queryId = id /\ table[i].isDeleted = 0
        THEN [table[i] EXCEPT
                 !.liked = COALESCE(feedbackParameter(liked), @),
                 !.disliked = COALESCE(feedbackParameter(disliked), @)]
        ELSE table[i]]

\* a change count that also counts the soft-deleted rows of the id
changes_anyRow(table, id) ==
    Cardinality({i \in DOMAIN table : table[i].queryId = id})

\* result.changes of an UPDATE ... WHERE queryId = ? AND isDeleted = 0
changes(table, id) ==
    Cardinality({i \in DOMAIN table :
                    table[i].queryId = id /\ table[i].isDeleted = 0})

\* a soft-delete of all rows that brings the deleted ones back
softDeleteAllQueries_flipping(table) ==
    [i \in DOMAIN table |-> [table[i] EXCEPT !.isDeleted = 1 - @]]

\* UPDATE user_queries SET isDeleted = 1 WHERE isDeleted = 0
softDeleteAllQueries(table) ==
    [i \in DOMAIN table |-> [table[i] EXCEPT !.isDeleted = 1]]

\* DELETE FROM user_queries
deleteAllQueries(table) == <<>>

\* createTable declares no AUTOINCREMENT column, so the database holds no
\* table sqlite_sequence
sqlite_sequenceExists == FALSE

\* truncateTable: exec('DELETE FROM user_queries'), then
\* exec('DELETE FROM sqlite_sequence WHERE name="user_queries"'), which
\* throws when that table does not exist; the first statement stays done
truncateTable(table) ==
    [table |-> deleteAllQueries(table), threw |-> ~sqlite_sequenceExists]


\* SELECT ... FROM documents WHERE docId = ? AND isDeleted = 0
getDocumentById(table, docId) ==
    {r \in rowsOf(table) : r.docId = docId /\ r.isDeleted = 0}

\* the docId insertDocument takes from uuidv4(), as text
docIdText(n) == <<"u1", "u2", "u3", "u4", "u5", "u6", "u7", "u8">>[n]

\* the row INSERT INTO documents writes: embeddingDocId NULL,
\* totalEmbeddings 0, isDeleted 0, processedAt NULL ("" is NULL)
insertDocument(table, docId, originalName, storedFileName) ==
    Append(table, [docId |-> docId, originalName |-> originalName,
                   storedFileName |-> storedFileName, embeddingDocId |-> "",
                   totalEmbeddings |-> 0, isDeleted |-> 0,
                   processedAt |-> ""])

\* UPDATE documents SET embeddingDocId = ?, totalEmbeddings = ?,
\* processedAt = datetime('now') WHERE docId = ? AND isDeleted = 0
updateDocumentAfterProcessing(table, docId, embeddingDocId, totalEmbeddings) ==
    [i \in DOMAIN table |->
        IF table[i].docId = docId /\ table[i].isDeleted = 0
        THEN [table[i] EXCEPT !.embeddingDocId = embeddingDocId,
                              !.totalEmbeddings = totalEmbeddings,
                              !.processedAt = "now"]
        ELSE table[i]]

\* UPDATE documents SET isDeleted = 1 WHERE docId = ? AND isDeleted = 0
deleteDocument(table, docId) ==
    [i \in DOMAIN table |->
        IF table[i].docId = docId /\ table[i].isDeleted = 0
        THEN [table[i] EXCEPT !.isDeleted = 1]
        ELSE table[i]]

\* DELETE FROM documents
deleteAllDocuments(table) == <<>>

(***************************************************************************)
(* Embedding file store.  A file is the text JSON.stringify produced, as a *)
(* sequence of tokens: "{" , one token per chunk, "}".  writeFileSync      *)
(* truncates the file and then writes the text; an interrupted write       *)
(* leaves a proper prefix of it.                                           *)
(***************************************************************************)
EmbIds == {"e1", "e2", "e3"}

NoFile == << [kind |-> "absent", text |-> "", embedding |-> <<>>] >>

\* a store that finds no file
fileExists_never(file) == FALSE

fileExists(file) == file # NoFile

chunkToken(text, embedding) ==
    [kind |-> "chunk", text |-> text, embedding |-> embedding]

\* the `data` object of saveEmbeddingsToFile:
\* chunks.map((chunk, index) => ({text: chunk, embedding: embeddings[index]?.embedding || []}))
saveData(chunks, embeddings) ==
    [index \in DOMAIN chunks |->
        chunkToken(chunks[index],
                   IF index \in DOMAIN embeddings
                   THEN embeddings[index].embedding ELSE <<>>)]

\* JSON.stringify(data, null, 2)
stringify(data) ==
    << [kind |-> "{", text |-> "", embedding |-> <<>>] >> \o data \o
    << [kind |-> "}", text |-> "", embedding |-> <<>>] >>

\* a JSON parser that accepts a text cut off before its end
parseable_truncated(file) == Len(file) >= 1 /\ file[1].kind = "{"

\* JSON.parse succeeds exactly on a complete text
parseable(file) ==
    /\ Len(file) >= 2
    /\ file[1].kind = "{"
    /\ file[Len(file)].kind = "}"
    /\ \A i \in 2..(Len(file) - 1) : file[i].kind = "chunk"

\* JSON.parse(text).chunks
parseChunks(file) == SubSeq(file, 2, Len(file) - 1)

\* loadEmbeddingsFromFile: null (not found) when the file is missing or when
\* reading / parsing throws; the result is <<found, chunks>>
loadEmbeddingsFromFile(file) ==
    IF ~fileExists(file) THEN <<FALSE, <<>>>>
    ELSE IF ~parseable(file) THEN <<FALSE, <<>>>>
    ELSE <<TRUE, parseChunks(file)>>

\* a load that numbers the chunks from 1
loadExistingEmbeddings_oneBased(file) ==
    IF fileExists(file) /\ loadEmbeddingsFromFile(file)[1]
    THEN LET data == loadEmbeddingsFromFile(file)[2]
         IN  <<TRUE, [index \in DOMAIN data |->
                        [chunkIndex |-> index, text |-> data[index].text,
                         embedding |-> data[index].embedding]]>>
    ELSE <<FALSE, <<>>>>

\* loadExistingEmbeddings: the stored chunks with chunkIndex = position, or
\* null; the result is <<found, chunk list>>
loadExistingEmbeddings(file) ==
    IF fileExists(file) /\ loadEmbeddingsFromFile(file)[1]
    THEN LET data == loadEmbeddingsFromFile(file)[2]
         IN  <<TRUE, [index \in DOMAIN data |->
                        [chunkIndex |-> index - 1, text |-> data[index].text,
                         embedding |-> data[index].embedding]]>>
    ELSE <<FALSE, <<>>>>

\* loadChunkEmbeddingsFromFile: the loaded list when it is non-empty, else []
loadChunkEmbeddingsFromFile(file) ==
    LET loaded == loadExistingEmbeddings(file)
    IN  IF loaded[1] /\ Len(loaded[2]) > 0 THEN loaded[2] ELSE <<>>

\* the text writeFileSync puts into the file for saveEmbeddingsToFile
saveEmbeddingsToFile(chunks, embeddings) == stringify(saveData(chunks, embeddings))

\* deleteEmbeddings: unlinkSync when the file exists
deleteEmbeddings(file) == NoFile

\* what an interrupted writeFileSync can leave behind
properPrefixes(text) == {SubSeq(text, 1, n) : n \in 0..(Len(text) - 1)}

(***************************************************************************)
(* Prompt cache (node-localstorage): a set of entries, one per key.        *)
(***************************************************************************)
\* getStoredPromptEmbedding: the entries found under the prompt's key
getStoredPromptEmbedding(storage, prompt) ==
    {e \in storage : e.key = generatePromptKey(prompt)}

\* storePromptEmbedding: localStorage.setItem overwrites the key's entry
storePromptEmbedding(storage, prompt, embedding) ==
    {e \in storage : e.key # generatePromptKey(prompt)} \cup
    {[key |-> generatePromptKey(prompt), prompt |-> prompt, embedding |-> embedding]}

\* clearPromptCache: removeItem for every key that starts with prompt_
clearPromptCache(storage) == {}

(***************************************************************************)
(* Similarity search (cosine-similarity-search).                           *)
(***************************************************************************)
DEFAULT_TOP_CHUNKS == 3

RECURSIVE dot(_, _)
dot(x, y) == IF x = <<>> THEN 0 ELSE Head(x) * Head(y) + dot(Tail(x), Tail(y))

\* promptEmbedding[0].values / chunk.embedding[0].values can be read and
\* given to cosineSimilarity only in these cases; anything else throws a
\* TypeError (element 0 undefined, `values` not an array) or the library's
\* length error
hasValues(embedding) == embedding # <<>> /\ embedding[1].tag = "values"

cosineSimilarityThrows(promptEmbedding, embedding) ==
    \/ ~hasValues(promptEmbedding)
    \/ ~hasValues(embedding)
    \/ Len(promptEmbedding[1].nums) # Len(embedding[1].nums)

\* a / (b * c) of cosineSimilarity, kept exact: <<dot, |x|^2, |y|^2>>
cosineSimilarity(x, y) == <<dot(x, y), dot(x, x), dot(y, y)>>

\* s1 > s2 for scores of vectors without negative components
scoreGreater(s1, s2) ==
    s1[1] * s1[1] * s2[2] * s2[3] > s2[1] * s2[1] * s1[2] * s1[3]

validateSimilaritySearchInputs(promptEmbedding, embeddings) ==
    /\ Len(embeddings) # 0
    /\ Len(promptEmbedding) # 0

calculateSimilarityScores(promptEmbedding, embeddings) ==
    [i \in DOMAIN embeddings |->
        [chunkIndex |-> embeddings[i].chunkIndex,
         text |-> embeddings[i].text,
         similarityScore |-> cosineSimilarity(promptEmbedding[1].nums,
                                              embeddings[i].embedding[1].nums)]]

calculateSimilarityScoresThrows(promptEmbedding, embeddings) ==
    \E i \in DOMAIN embeddings :
        cosineSimilarityThrows(promptEmbedding, embeddings[i].embedding)

\* Array.prototype.sort with (a, b) => b.similarityScore - a.similarityScore:
\* a stable sort, descending by score
RECURSIVE insertSorted(_, _)
insertSorted(sorted, c) ==
    IF sorted = <<>> THEN <<c>>
    ELSE IF scoreGreater(c.similarityScore, Head(sorted).similarityScore)
         THEN <<c>> \o sorted
         ELSE <<Head(sorted)>> \o insertSorted(Tail(sorted), c)

RECURSIVE sortBySimilarity(_)
sortBySimilarity(similarities) ==
    IF similarities = <<>> THEN <<>>
    ELSE insertSorted(
            sortBySimilarity(SubSeq(similarities, 1, Len(similarities) - 1)),
            similarities[Len(similarities)])

selectTopSimilarChunks(similarities, topN) ==
    SubSeq(sortBySimilarity(similarities), 1,
           IF Len(similarities) < topN THEN Len(similarities) ELSE topN)

\* `[${index + 1}]\n${chunk.text}` for each chunk, joined
formatChunksForLLM(topChunks) ==
    [index \in DOMAIN topChunks |-> <<index, topChunks[index].text>>]

\* the candidate list findTopSimilarChunks scores: the list passed in, else
\* the list loaded from the file, else the process-wide chunkEmbeddings
candidateEmbeddings(passed, file, global) ==
    IF Len(passed) # 0 THEN passed
    ELSE IF Len(loadChunkEmbeddingsFromFile(file)) # 0
         THEN loadChunkEmbeddingsFromFile(file)
         ELSE global

\* findTopSimilarChunks: what it returns, what it scored, whether scoring
\* threw (caught inside, [] returned) and the new value of top3SimilarChunks
findTopSimilarChunks(promptEmbedding, passed, file, global, top3) ==
    LET embeddings == candidateEmbeddings(passed, file, global)
    IN  IF ~validateSimilaritySearchInputs(promptEmbedding, embeddings)
        THEN [result |-> <<>>, scored |-> <<>>, threw |-> FALSE, top3 |-> top3]
        ELSE IF calculateSimilarityScoresThrows(promptEmbedding, embeddings)
        THEN [result |-> <<>>, scored |-> embeddings, threw |-> TRUE,
              top3 |-> top3]
        ELSE LET topChunks ==
                    selectTopSimilarChunks(
                        calculateSimilarityScores(promptEmbedding, embeddings),
                        DEFAULT_TOP_CHUNKS)
             IN  [result |-> formatChunksForLLM(topChunks),
                  scored |-> embeddings, threw |-> FALSE, top3 |-> topChunks]

(***************************************************************************)
(* State.                                                                  *)
(***************************************************************************)
VARIABLES
    USE_LLM_MODEL,      \* app.config.js: TRUE = call the providers
    clock,              \* datetime('now'), in seconds
    uuids,              \* number of uuidv4 values handed out
    user_queries,       \* table user_queries
    documents,          \* table documents
    embeddingFiles,     \* storage/embeddings/<id>.json, per embeddingDocId
    localStorage,       \* the prompt cache
    chunkEmbeddings,    \* process-wide variable of embedding.generator
    top3SimilarChunks,  \* process-wide variable of cosine-similarity-search
    rag,                \* the processPrompt request running in each slot
    returned,           \* the processPrompt request that ended last
    calls,              \* processPrompt invocations so far
    jobs,               \* the generateChunkEmbeddings call running in each slot
    jobDone,            \* the generateChunkEmbeddings call that ended last
    jobCount,           \* generateChunkEmbeddings invocations so far
    crashes,            \* process crashes so far
    written,            \* per embeddingDocId, the texts given to writeFileSync
    lastCall,           \* the last direct call of a store or upload operation
    generatedIds,       \* the ids generatePdfId has returned, with their inputs
    textChunks,         \* chunk.generator.js: the module's textChunks array
    uploadedFiles       \* the stored uploads in ./storage/documents

vars == <<USE_LLM_MODEL, clock, uuids, user_queries, documents, embeddingFiles,
          localStorage, chunkEmbeddings, top3SimilarChunks, rag, returned,
          calls, jobs, jobDone, jobCount, crashes, written, lastCall,
          generatedIds, textChunks, uploadedFiles>>

storeVars == <<user_queries, documents, embeddingFiles, localStorage>>
docVars == <<jobs, jobDone, jobCount, crashes, written>>

Answers == {"x", "y"}                \* texts the generation provider answers
MockAnswer == "mock"                 \* the static answer without the provider
DocRefs == {"d1", "d2", "dX"}        \* docId arguments; dX names no row

noSearch == [result |-> <<>>, scored |-> <<>>, threw |-> FALSE]

idleRag ==
    [pc |-> "idle", userPrompt |-> <<>>, docId |-> "",
     promptEmbedding |-> <<>>, embeddingDocId |-> "", search |-> noSearch,
     answer |-> "", queryId |-> 0, cached |-> FALSE, failedAt |-> "",
     generation |-> "none", embedCalls |-> 0, genCalls |-> 0,
     cacheWrites |-> 0, setReads |-> 0, inserted |-> {}]

\* chunk list for a document's texts as generateChunkEmbeddings builds it
embedChunks(texts, live) ==
    [i \in DOMAIN texts |->
        [chunkIndex |-> i - 1, text |-> texts[i],
         embedding |-> IF live THEN providerEmbedding(texts[i])
                       ELSE staticChunkEmbedding]]

(***************************************************************************)
(* RAGService.processPrompt(userPrompt, docId).  The function runs up to   *)
(* an await, and the rest runs later; other requests run in between.       *)
(***************************************************************************)
\* a pipeline that goes on although a cached row was found
noCachedResult_ignored(cachedQuery) == TRUE

\* `if (cachedResult) return cachedResult;` : the pipeline goes on only
\* without a cached row
noCachedResult(cachedQuery) == cachedQuery = {}

\* a generation step whose error is swallowed: the save follows anyway
afterGeneration_swallowed(ok) == "persist"

\* what follows the generation step: the answer is saved, or the error
\* reaches the catch block of processPrompt
afterGeneration(ok) == IF ok THEN "persist" ELSE "failed"

\* what is left of a request when processPrompt returns or throws: its
\* outcome and what it did; its local variables are gone
ended(r, pc, failedAt) ==
    [r EXCEPT !.pc = pc, !.failedAt = failedAt, !.docId = "",
              !.promptEmbedding = <<>>, !.embeddingDocId = "",
              !.search = [noSearch EXCEPT !.threw = r.search.threw]]

\* a hit that is returned only after the document reference was resolved
returnCached_resolving(s, userPrompt, docId, row) ==
    /\ returned' =
          IF getDocumentById(documents, docId) = {}
          THEN ended([idleRag EXCEPT !.userPrompt = userPrompt],
                     "failed", "resolve")
          ELSE [idleRag EXCEPT !.pc = "done", !.userPrompt = userPrompt,
                               !.answer = row.answer,
                               !.queryId = row.queryId, !.cached = TRUE]
    /\ UNCHANGED <<rag, localStorage>>

\* findInSqlLiteDatabase found a row: the cached result is returned
returnCached(s, userPrompt, docId, row) ==
    /\ returned' = [idleRag EXCEPT !.pc = "done",
                                   !.userPrompt = userPrompt,
                                   !.answer = row.answer,
                                   !.queryId = row.queryId, !.cached = TRUE]
    /\ UNCHANGED <<rag, localStorage>>

\* getPromptEmbedding: the stored embedding, else the placeholder, which is
\* stored in the prompt cache; then the first await
getPromptEmbedding(s, userPrompt, docId) ==
    LET stored == getStoredPromptEmbedding(localStorage, userPrompt)
    IN  \/ /\ stored # {}
           /\ \E e \in stored :
                rag' = [rag EXCEPT ![s] =
                          [idleRag EXCEPT !.pc = "embedded",
                                          !.userPrompt = userPrompt,
                                          !.docId = docId,
                                          !.promptEmbedding = e.embedding]]
           /\ UNCHANGED <<returned, localStorage>>
        \/ /\ stored = {}
           /\ rag' = [rag EXCEPT ![s] =
                        [idleRag EXCEPT !.pc = "embedded",
                                        !.userPrompt = userPrompt,
                                        !.docId = docId,
                                        !.promptEmbedding = promptPlaceholder,
                                        !.cacheWrites = 1]]
           /\ UNCHANGED returned
           /\ localStorage' =
                storePromptEmbedding(localStorage, userPrompt, promptPlaceholder)

\* steps 1 and 2; a new request takes the first free slot
processPromptStart(s, userPrompt, docId) ==
    /\ rag[s].pc = "idle"
    /\ \A t \in RSlots : t < s => rag[t].pc # "idle"
    /\ calls' = calls + 1
    /\ LET cachedQuery == findQueryByPrompt(user_queries, userPrompt)
       IN  \/ /\ cachedQuery # {}
              /\ \E row \in cachedQuery :
                    returnCached(s, userPrompt, docId, row)
           \/ /\ noCachedResult(cachedQuery)
              /\ getPromptEmbedding(s, userPrompt, docId)
    /\ UNCHANGED <<USE_LLM_MODEL, clock, uuids, user_queries, documents,
                   embeddingFiles, chunkEmbeddings, top3SimilarChunks>>
    /\ UNCHANGED <<docVars, lastCall, generatedIds, textChunks, uploadedFiles>>

\* step 2.5: the document reference resolves to no embeddingDocId
processPromptNoDocument(s) ==
    /\ rag[s].pc = "embedded"
    /\ \A d \in getDocumentById(documents, rag[s].docId) : d.embeddingDocId = ""
    /\ returned' = ended(rag[s], "failed", "resolve")
    /\ rag' = [rag EXCEPT ![s] = idleRag]
    /\ UNCHANGED <<USE_LLM_MODEL, clock, uuids, calls, chunkEmbeddings,
                   top3SimilarChunks>>
    /\ UNCHANGED storeVars
    /\ UNCHANGED <<docVars, lastCall, generatedIds, textChunks, uploadedFiles>>

\* steps 3 and 4: similarity search, prompt assembly, and the generation
\* provider is called (or the static answer is taken)
processPromptRetrieve(s) ==
    /\ rag[s].pc = "embedded"
    /\ \E d \in getDocumentById(documents, rag[s].docId) :
         /\ d.embeddingDocId # ""
         /\ LET found == findTopSimilarChunks(rag[s].promptEmbedding, <<>>,
                            embeddingFiles[d.embeddingDocId], chunkEmbeddings,
                            top3SimilarChunks)
                base == [rag[s] EXCEPT
                            !.embeddingDocId = d.embeddingDocId,
                            !.setReads = 1,
                            !.search = [result |-> found.result,
                                        scored |-> found.scored,
                                        threw |-> found.threw]]
            IN  /\ top3SimilarChunks' = found.top3
                /\ IF USE_LLM_MODEL
                   THEN rag' = [rag EXCEPT ![s] =
                                  [base EXCEPT !.pc = "awaitGen", !.genCalls = 1]]
                   ELSE rag' = [rag EXCEPT ![s] =
                                  [base EXCEPT !.pc = afterGeneration(TRUE),
                                               !.generation = "static",
                                               !.answer = MockAnswer]]
    /\ UNCHANGED <<USE_LLM_MODEL, clock, uuids, calls, chunkEmbeddings, returned>>
    /\ UNCHANGED storeVars
    /\ UNCHANGED <<docVars, lastCall, generatedIds, textChunks, uploadedFiles>>

\* generateAnswerFromLLM resolves with the provider's text
generateAnswerReturns(s, text) ==
    /\ rag[s].pc = "awaitGen"
    /\ rag' = [rag EXCEPT ![s].pc = afterGeneration(TRUE),
                          ![s].generation = "returned", ![s].answer = text]
    /\ UNCHANGED <<USE_LLM_MODEL, clock, uuids, calls, chunkEmbeddings,
                   top3SimilarChunks, returned>>
    /\ UNCHANGED storeVars
    /\ UNCHANGED <<docVars, lastCall, generatedIds, textChunks, uploadedFiles>>

\* generateAnswerFromLLM rejects (provider error, or no API key)
generateAnswerFails(s) ==
    /\ rag[s].pc = "awaitGen"
    /\ IF afterGeneration(FALSE) = "failed"
       THEN /\ returned' = ended([rag[s] EXCEPT !.generation = "failed"],
                                 "failed", "generation")
            /\ rag' = [rag EXCEPT ![s] = idleRag]
       ELSE /\ rag' = [rag EXCEPT ![s].pc = afterGeneration(FALSE),
                                  ![s].generation = "failed"]
            /\ UNCHANGED returned
    /\ UNCHANGED <<USE_LLM_MODEL, clock, uuids, calls, chunkEmbeddings,
                   top3SimilarChunks>>
    /\ UNCHANGED storeVars
    /\ UNCHANGED <<docVars, lastCall, generatedIds, textChunks, uploadedFiles>>

\* step 5: saveQueryToDatabase -> insertQuery, and the result is returned
saveQueryToDatabase(s) ==
    /\ rag[s].pc = "persist"
    /\ uuids' = uuids + 1
    /\ LET queryId == uuidv4(uuids + 1)
       IN  IF primaryKeyConflict(user_queries, queryId)
           THEN /\ returned' = ended(rag[s], "failed", "persist")
                /\ UNCHANGED user_queries
           ELSE /\ user_queries' =
                      insertQuery(user_queries, queryId, rag[s].userPrompt,
                                  rag[s].answer, clock)
                /\ returned' =
                      ended([rag[s] EXCEPT
                               !.queryId = queryId, !.cached = FALSE,
                               !.inserted = rag[s].inserted \cup {queryId}],
                            "done", "")
    /\ rag' = [rag EXCEPT ![s] = idleRag]
    /\ UNCHANGED <<USE_LLM_MODEL, clock, calls, documents, embeddingFiles,
                   localStorage, chunkEmbeddings, top3SimilarChunks>>
    /\ UNCHANGED <<docVars, lastCall, generatedIds, textChunks, uploadedFiles>>

(***************************************************************************)
(* Other requests and the clock.                                           *)
(***************************************************************************)
\* SQLLiteDB.deleteQuery on a row that is there and not deleted
softDeleteQuery(queryId) ==
    /\ getQueryById(user_queries, queryId) # {}
    /\ user_queries' = deleteQuery(user_queries, queryId)
    /\ UNCHANGED <<USE_LLM_MODEL, clock, uuids, documents, embeddingFiles,
                   localStorage, chunkEmbeddings, top3SimilarChunks, rag,
                   returned, calls>>
    /\ UNCHANGED <<docVars, lastCall, generatedIds, textChunks, uploadedFiles>>

\* a second passes
Tick ==
    /\ clock < MaxClock
    /\ clock' = clock + 1
    /\ UNCHANGED <<USE_LLM_MODEL, uuids, user_queries, documents,
                   embeddingFiles, localStorage, chunkEmbeddings,
                   top3SimilarChunks, rag, returned, calls>>
    /\ UNCHANGED <<docVars, lastCall, generatedIds, textChunks, uploadedFiles>>

(***************************************************************************)
(* The question-answering specification.  It starts after two documents    *)
(* were processed: d1, whose EmbeddingSet e1 is stored, and d2, whose row  *)
(* names e2 and counts no embeddings: with the providers on its            *)
(* processing failed at the embedding provider and no file e2 was written, *)
(* with the providers off the document held no text and e2 is stored with  *)
(* no chunks.  chunkEmbeddings holds what the last processing left, or is  *)
(* empty after a restart.                                                  *)
(***************************************************************************)
documentRow(docId, originalName, storedFileName, embeddingDocId, total) ==
    [docId |-> docId, originalName |-> originalName,
     storedFileName |-> storedFileName, embeddingDocId |-> embeddingDocId,
     totalEmbeddings |-> total, isDeleted |-> 0,
     processedAt |-> IF embeddingDocId = "" THEN "" ELSE "now"]

TextsOfD1 == <<"t1", "t2">>

idleJob ==
    [pc |-> "idle", file |-> "", embeddingDocId |-> "", chunks |-> <<>>,
     i |-> 0]

\* no store or upload operation was called yet
noCall ==
    [op |-> "none", queryId |-> 0, prompt |-> <<>>, answer |-> "",
     liked |-> "undefined", disliked |-> "undefined", file |-> "",
     docId |-> "", embeddingDocId |-> "", rows |-> <<>>, ok |-> TRUE,
     count |-> 0, wrote |-> FALSE, chunks |-> <<>>, threw |-> FALSE,
     promptEmbedding |-> <<>>, candidates |-> <<>>, result |-> <<>>]

noJobDone ==
    [pc |-> "none", file |-> "", embeddingDocId |-> "", chunks |-> <<>>,
     returned |-> <<>>, saved |-> FALSE, savedText |-> <<>>]

Init ==
    /\ USE_LLM_MODEL \in BOOLEAN
    /\ clock = 0
    /\ uuids = 0
    /\ user_queries = <<>>
    /\ documents = <<documentRow("d1", "o1", "f1", "e1", 2),
                      documentRow("d2", "o2", "f2", "e2", 0)>>
    /\ embeddingFiles =
          [id \in EmbIds |->
              IF id = "e1"
              THEN saveEmbeddingsToFile(TextsOfD1,
                                        embedChunks(TextsOfD1, USE_LLM_MODEL))
              ELSE IF USE_LLM_MODEL THEN NoFile
              ELSE saveEmbeddingsToFile(<<>>, <<>>)]
    /\ localStorage = {}
    /\ chunkEmbeddings \in {<<>>, embedChunks(TextsOfD1, USE_LLM_MODEL)}
    /\ top3SimilarChunks = <<>>
    /\ rag = [s \in RSlots |-> idleRag]
    /\ returned = idleRag
    /\ calls = 0
    /\ jobs = [u \in USlots |-> idleJob]
    /\ jobDone = noJobDone
    /\ jobCount = 0
    /\ crashes = 0
    /\ written = [id \in EmbIds |->
                    IF fileExists(embeddingFiles[id])
                    THEN {embeddingFiles[id]} ELSE {}]
    /\ lastCall = noCall
    /\ generatedIds = {}
    /\ textChunks = <<>>
    /\ uploadedFiles = {}

Next ==
    \/ \E s \in RSlots, userPrompt \in Prompts, docId \in DocRefs :
          calls < MaxCalls /\ processPromptStart(s, userPrompt, docId)
    \/ \E s \in RSlots : processPromptNoDocument(s)
    \/ \E s \in RSlots : processPromptRetrieve(s)
    \/ \E s \in RSlots, text \in Answers : generateAnswerReturns(s, text)
    \/ \E s \in RSlots : generateAnswerFails(s)
    \/ \E s \in RSlots : saveQueryToDatabase(s)
    \/ \E queryId \in 1..MaxCalls : softDeleteQuery(queryId)
    \/ Tick

Spec == Init /\ [][Next]_vars

(***************************************************************************)
(* Document processing: processPdf -> generateChunkEmbeddings(chunks,      *)
(* filePath, embeddingDocId).  With the providers on, the function awaits  *)
(* the embedding provider once per chunk; with the providers off it runs   *)
(* to its end without a break.                                             *)
(***************************************************************************)
Files == {"f1", "f2"}

\* createTextChunks(pdfToText(filePath)): the chunk texts of an uploaded file
TextsOf(file) ==
    IF file \in {"f1", "f3"} THEN <<"t1", "t2">>
    ELSE IF file = "f5" THEN <<"t3">> ELSE <<"t3", "t4">>

\* generateEmbeddingDocId: a function of the stored file's name and size;
\* the id begins with the stored name without its extension, so stored files
\* of different names have different ids; f5 is a file of f1's name and
\* another size whose digest begins like f1's, so it gets f1's id
generateEmbeddingDocId(file) ==
    IF file \in {"f1", "f5"} THEN "e1" ELSE IF file = "f3" THEN "e3" ELSE "e2"

\* chunkEmbeddings.push({chunkIndex: i, text: chunks[i], embedding})
pushed(list, i, chunks, embedding) ==
    Append(list, [chunkIndex |-> i - 1, text |-> chunks[i],
                  embedding |-> embedding])

\* the end of generateChunkEmbeddings: saveEmbeddingsToFile(chunks,
\* chunkEmbeddings, embeddingDocId) and `return chunkEmbeddings`.
\* writeFileSync runs to its end, or the process dies inside it: the file
\* is left with a proper prefix of the text and the process starts again
\* with empty memory.
saveAndReturn(u, job, list) ==
    LET text == saveEmbeddingsToFile(job.chunks, list)
        done == [pc |-> "done", file |-> job.file,
                 embeddingDocId |-> job.embeddingDocId, chunks |-> job.chunks,
                 returned |-> list, saved |-> TRUE, savedText |-> text]
    IN  /\ written' = [written EXCEPT ![job.embeddingDocId] = @ \cup {text}]
        /\ \/ /\ embeddingFiles' =
                    [embeddingFiles EXCEPT ![job.embeddingDocId] = text]
              /\ chunkEmbeddings' = list
              /\ jobs' = [jobs EXCEPT ![u] = idleJob]
              /\ jobDone' = done
              /\ UNCHANGED <<crashes, rag, top3SimilarChunks>>
           \/ /\ crashes < MaxCrashes
              /\ crashes' = crashes + 1
              /\ \E partial \in properPrefixes(text) :
                    embeddingFiles' =
                        [embeddingFiles EXCEPT ![job.embeddingDocId] = partial]
              /\ chunkEmbeddings' = <<>>
              /\ top3SimilarChunks' = <<>>
              /\ jobs' = [v \in USlots |-> idleJob]
              /\ rag' = [s \in RSlots |-> idleRag]
              /\ jobDone' = [done EXCEPT !.pc = "crashed", !.returned = <<>>,
                                         !.saved = FALSE]

\* the call up to its first await (or to its end)
generateChunkEmbeddings(u, file) ==
    LET job == [pc |-> "awaitEmbed", file |-> file,
                embeddingDocId |-> generateEmbeddingDocId(file),
                chunks |-> TextsOf(file), i |-> 1]
        existingEmbeddings ==
            loadExistingEmbeddings(embeddingFiles[job.embeddingDocId])
    IN  /\ jobs[u].pc = "idle"
        /\ \A v \in USlots : v < u => jobs[v].pc # "idle"
        /\ jobCount' = jobCount + 1
        /\ IF existingEmbeddings[1]
           THEN /\ chunkEmbeddings' = existingEmbeddings[2]
                /\ jobDone' = [pc |-> "done", file |-> file,
                               embeddingDocId |-> job.embeddingDocId,
                               chunks |-> job.chunks,
                               returned |-> existingEmbeddings[2],
                               saved |-> FALSE, savedText |-> <<>>]
                /\ UNCHANGED <<embeddingFiles, jobs, crashes, written, rag,
                               top3SimilarChunks>>
           ELSE IF USE_LLM_MODEL /\ Len(job.chunks) > 0
           THEN /\ chunkEmbeddings' = <<>>
                /\ jobs' = [jobs EXCEPT ![u] = job]
                /\ UNCHANGED <<embeddingFiles, jobDone, crashes, written, rag,
                               top3SimilarChunks>>
           ELSE saveAndReturn(u, job, embedChunks(job.chunks, FALSE))
        /\ UNCHANGED <<USE_LLM_MODEL, clock, uuids, user_queries, documents,
                       localStorage, returned, calls, lastCall,
                       generatedIds, textChunks, uploadedFiles>>

\* generateEmbeddingFromGenAI resolves for chunk i: the push, and then the
\* next provider call or the end of the function
embeddingReturns(u) ==
    /\ jobs[u].pc = "awaitEmbed"
    /\ LET job == jobs[u]
           list == pushed(chunkEmbeddings, job.i, job.chunks,
                          providerEmbedding(job.chunks[job.i]))
       IN  IF job.i < Len(job.chunks)
           THEN /\ chunkEmbeddings' = list
                /\ jobs' = [jobs EXCEPT ![u].i = job.i + 1]
                /\ UNCHANGED <<embeddingFiles, jobDone, crashes, written, rag,
                               top3SimilarChunks>>
           ELSE saveAndReturn(u, job, list)
    /\ UNCHANGED <<USE_LLM_MODEL, clock, uuids, user_queries, documents,
                   localStorage, returned, calls, jobCount, lastCall,
                   generatedIds, textChunks, uploadedFiles>>

\* generateEmbeddingFromGenAI rejects: the catch block returns []
embeddingFails(u) ==
    /\ jobs[u].pc = "awaitEmbed"
    /\ jobDone' = [pc |-> "failed", file |-> jobs[u].file,
                   embeddingDocId |-> jobs[u].embeddingDocId,
                   chunks |-> jobs[u].chunks, returned |-> <<>>,
                   saved |-> FALSE, savedText |-> <<>>]
    /\ jobs' = [jobs EXCEPT ![u] = idleJob]
    /\ UNCHANGED <<USE_LLM_MODEL, clock, uuids, user_queries, documents,
                   embeddingFiles, localStorage, chunkEmbeddings,
                   top3SimilarChunks, rag, returned, calls, jobCount, crashes,
                   written, lastCall,
                   generatedIds, textChunks, uploadedFiles>>

\* a fresh installation: no document, no file, empty memory
DocInit ==
    /\ USE_LLM_MODEL \in BOOLEAN
    /\ clock = 0
    /\ uuids = 0
    /\ user_queries = <<>>
    /\ documents = <<>>
    /\ embeddingFiles = [id \in EmbIds |-> NoFile]
    /\ localStorage = {}
    /\ chunkEmbeddings = <<>>
    /\ top3SimilarChunks = <<>>
    /\ rag = [s \in RSlots |-> idleRag]
    /\ returned = idleRag
    /\ calls = 0
    /\ jobs = [u \in USlots |-> idleJob]
    /\ jobDone = noJobDone
    /\ jobCount = 0
    /\ crashes = 0
    /\ written = [id \in EmbIds |-> {}]
    /\ lastCall = noCall
    /\ generatedIds = {}
    /\ textChunks = <<>>
    /\ uploadedFiles = {}

DocNext ==
    \/ \E u \in USlots, file \in Files :
          jobCount < MaxJobs /\ generateChunkEmbeddings(u, file)
    \/ \E u \in USlots : embeddingReturns(u)
    \/ \E u \in USlots : embeddingFails(u)

DocSpec == DocInit /\ [][DocNext]_vars

(***************************************************************************)
(* Asking again: the same question, in different spellings, is asked up to *)
(* MaxAsks times against document d1 with the generation provider on.      *)
(***************************************************************************)
MaxAsks == 3

SamePrompts == { <<"a">>, <<" ", "A">> }

AskInit == Init /\ USE_LLM_MODEL /\ chunkEmbeddings = <<>>

AskNext ==
    \/ \E s \in RSlots, userPrompt \in SamePrompts :
          calls < MaxAsks /\ processPromptStart(s, userPrompt, "d1")
    \/ \E s \in RSlots : processPromptRetrieve(s)
    \/ \E s \in RSlots, text \in Answers : generateAnswerReturns(s, text)
    \/ \E s \in RSlots : saveQueryToDatabase(s)
    \/ \E queryId \in 1..MaxAsks : softDeleteQuery(queryId)
    \/ Tick

AskSpec == AskInit /\ [][AskNext]_vars

(***************************************************************************)
(* The Query Store by itself: direct calls of the SQLLiteDB methods, as    *)
(* the routes and the orchestrator make them.  lastCall keeps the call     *)
(* made last, with its arguments and what it returned.                     *)
(***************************************************************************)
MaxIds == 2        \* rows ever inserted in one behaviour

StoreAnswers == {"x"}

storeFrame ==
    UNCHANGED <<USE_LLM_MODEL, documents, embeddingFiles, localStorage,
                chunkEmbeddings, top3SimilarChunks, rag, returned, calls,
                docVars, generatedIds, textChunks, uploadedFiles>>

\* sqliteDB.insertQuery(prompt, answer): returns the inserted row
insertQueryCall(prompt, answer) ==
    /\ uuids' = uuids + 1
    /\ LET queryId == uuidv4(uuids + 1)
       IN  IF primaryKeyConflict(user_queries, queryId)
           THEN /\ UNCHANGED user_queries
                /\ lastCall' = [noCall EXCEPT !.op = "insertQuery",
                                   !.queryId = queryId, !.prompt = prompt,
                                   !.answer = answer, !.ok = FALSE]
           ELSE /\ user_queries' =
                      insertQuery(user_queries, queryId, prompt, answer, clock)
                /\ \E row \in getQueryById(user_queries', queryId) :
                      lastCall' = [noCall EXCEPT !.op = "insertQuery",
                                      !.queryId = queryId, !.prompt = prompt,
                                      !.answer = answer, !.rows = <<row>>]
    /\ UNCHANGED clock
    /\ storeFrame

\* sqliteDB.getQueryById(queryId)
getQueryByIdCall(queryId) ==
    /\ LET found == getQueryById(user_queries, queryId)
       IN  \/ /\ found = {}
              /\ lastCall' = [noCall EXCEPT !.op = "getQueryById",
                                 !.queryId = queryId, !.ok = FALSE]
           \/ \E row \in found :
                lastCall' = [noCall EXCEPT !.op = "getQueryById",
                                !.queryId = queryId, !.rows = <<row>>]
    /\ UNCHANGED <<user_queries, uuids, clock>>
    /\ storeFrame

\* sqliteDB.getAllQueries()
getAllQueriesCall ==
    /\ \E results \in getAllQueries(user_queries) :
          lastCall' = [noCall EXCEPT !.op = "getAllQueries", !.rows = results,
                                     !.count = Len(results)]
    /\ UNCHANGED <<user_queries, uuids, clock>>
    /\ storeFrame

\* sqliteDB.findQueryByPrompt(prompt)
findQueryByPromptCall(prompt) ==
    /\ LET found == findQueryByPrompt(user_queries, prompt)
       IN  \/ /\ found = {}
              /\ lastCall' = [noCall EXCEPT !.op = "findQueryByPrompt",
                                 !.prompt = prompt, !.ok = FALSE]
           \/ \E row \in found :
                lastCall' = [noCall EXCEPT !.op = "findQueryByPrompt",
                                !.prompt = prompt, !.rows = <<row>>]
    /\ UNCHANGED <<user_queries, uuids, clock>>
    /\ storeFrame

\* POST /queries/:queryId/feedback -> sqliteDB.updateQueryFeedback
updateQueryFeedbackCall(queryId, liked, disliked) ==
    /\ user_queries' = updateQueryFeedback(user_queries, queryId, liked, disliked)
    /\ lastCall' = [noCall EXCEPT !.op = "updateQueryFeedback",
                       !.queryId = queryId, !.liked = liked,
                       !.disliked = disliked,
                       !.ok = changes(user_queries, queryId) > 0]
    /\ UNCHANGED <<uuids, clock>>
    /\ storeFrame

\* sqliteDB.deleteQuery(queryId)
deleteQueryCall(queryId) ==
    /\ user_queries' = deleteQuery(user_queries, queryId)
    /\ lastCall' = [noCall EXCEPT !.op = "deleteQuery", !.queryId = queryId,
                       !.ok = changes(user_queries, queryId) > 0]
    /\ UNCHANGED <<uuids, clock>>
    /\ storeFrame

\* DELETE /queries/clear?type=soft -> sqliteDB.softDeleteAllQueries()
softDeleteAllQueriesCall ==
    /\ user_queries' = softDeleteAllQueries(user_queries)
    /\ lastCall' = [noCall EXCEPT !.op = "softDeleteAllQueries",
                       !.count = Len(notDeleted(user_queries))]
    /\ UNCHANGED <<uuids, clock>>
    /\ storeFrame

\* DELETE /queries/clear?type=hard -> sqliteDB.deleteAllQueries()
deleteAllQueriesCall ==
    /\ user_queries' = deleteAllQueries(user_queries)
    /\ lastCall' = [noCall EXCEPT !.op = "deleteAllQueries",
                       !.count = Len(user_queries)]
    /\ UNCHANGED <<uuids, clock>>
    /\ storeFrame

\* DELETE /queries/clear?type=truncate -> sqliteDB.truncateTable(); ok is
\* what the request answers: success, or the 500 of the catch block
truncateTableCall ==
    /\ user_queries' = truncateTable(user_queries).table
    /\ lastCall' = [noCall EXCEPT !.op = "truncateTable",
                       !.ok = ~truncateTable(user_queries).threw]
    /\ UNCHANGED <<uuids, clock>>
    /\ storeFrame

\* a second passes
StoreTick ==
    /\ clock < MaxClock
    /\ clock' = clock + 1
    /\ UNCHANGED <<user_queries, uuids, lastCall>>
    /\ storeFrame

StoreInit == DocInit /\ USE_LLM_MODEL

StoreNext ==
    \/ \E prompt \in Prompts, answer \in StoreAnswers :
          uuids < MaxIds /\ insertQueryCall(prompt, answer)
    \/ \E queryId \in 1..MaxIds : getQueryByIdCall(queryId)
    \/ getAllQueriesCall
    \/ \E prompt \in Prompts : findQueryByPromptCall(prompt)
    \/ \E queryId \in 1..MaxIds, liked \in FeedbackValues,
          disliked \in FeedbackValues :
          updateQueryFeedbackCall(queryId, liked, disliked)
    \/ \E queryId \in 1..MaxIds : deleteQueryCall(queryId)
    \/ softDeleteAllQueriesCall
    \/ deleteAllQueriesCall
    \/ truncateTableCall
    \/ StoreTick

StoreSpec == StoreInit /\ [][StoreNext]_vars

(***************************************************************************)
(* The rows of both tables through their life: inserted, soft-deleted,     *)
(* purged.  Queries and documents take their ids from the same uuidv4().   *)
(***************************************************************************)
MaxRows == 3       \* rows ever inserted, both tables together

lifeFrame ==
    UNCHANGED <<USE_LLM_MODEL, clock, embeddingFiles, localStorage,
                chunkEmbeddings, top3SimilarChunks, rag, returned, calls,
                docVars, generatedIds, textChunks, uploadedFiles>>

\* sqliteDB.insertDocument(docData): returns the inserted row
insertDocumentCall ==
    /\ uuids' = uuids + 1
    /\ LET docId == docIdText(uuidv4(uuids + 1))
       IN  /\ documents' = insertDocument(documents, docId, "o1", "f1")
           /\ \E row \in getDocumentById(documents', docId) :
                 lastCall' = [noCall EXCEPT !.op = "insertDocument",
                                 !.docId = docId, !.rows = <<row>>,
                                 !.count = Cardinality(
                                      getDocumentById(documents', docId))]
    /\ UNCHANGED user_queries
    /\ lifeFrame

\* sqliteDB.deleteDocument(docId)
deleteDocumentCall(docId) ==
    /\ documents' = deleteDocument(documents, docId)
    /\ lastCall' = [noCall EXCEPT !.op = "deleteDocument", !.docId = docId,
                       !.ok = getDocumentById(documents, docId) # {}]
    /\ UNCHANGED <<user_queries, uuids>>
    /\ lifeFrame

\* DELETE /documents/clear -> sqliteDB.deleteAllDocuments()
deleteAllDocumentsCall ==
    /\ documents' = deleteAllDocuments(documents)
    /\ lastCall' = [noCall EXCEPT !.op = "deleteAllDocuments",
                       !.count = Len(documents)]
    /\ UNCHANGED <<user_queries, uuids>>
    /\ lifeFrame

RowInit == DocInit /\ USE_LLM_MODEL

RowNext ==
    \/ uuids < MaxRows /\ insertQueryCall(<<"a">>, "x")
    \/ \E queryId \in 1..MaxRows :
          updateQueryFeedbackCall(queryId, "true", "undefined")
    \/ \E queryId \in 1..MaxRows : deleteQueryCall(queryId)
    \/ softDeleteAllQueriesCall
    \/ deleteAllQueriesCall
    \/ truncateTableCall
    \/ uuids < MaxRows /\ insertDocumentCall
    \/ \E n \in 1..MaxRows : deleteDocumentCall(docIdText(n))
    \/ deleteAllDocumentsCall

RowSpec == RowInit /\ [][RowNext]_vars

(***************************************************************************)
(* The fingerprint of a stored file: generatePdfId of embedding.store.js,  *)
(* the same code as generateEmbeddingDocId of the document processor.      *)
(* FileNames are basenames as multer stores them; FileSizes are sizes in   *)
(* bytes.  md5Hex8 holds the first 8 hex digits of the md5 digest of       *)
(* `${fileName}-${fileSize}` for these inputs.                             *)
(***************************************************************************)
FileNames == {"report.pdf-1700000000000-123456789.pdf",
              "notes.pdf-1700000000001-987654321.pdf"}

FileSizes == {1024, 138347, 145569}

\* crypto.createHash('md5').update(`${fileName}-${fileSize}`)
\*       .digest('hex').substring(0, 8)
md5Hex8(fileName, fileSize) ==
    IF fileName = "report.pdf-1700000000000-123456789.pdf"
    THEN CASE fileSize = 1024   -> "7a64e843"
           [] fileSize = 138347 -> "ad98e819"
           [] fileSize = 145569 -> "ad98e819"
    ELSE CASE fileSize = 1024   -> "54370d82"
           [] fileSize = 138347 -> "f31546e3"
           [] fileSize = 145569 -> "3bb42ef5"

\* path.parse(fileName).name, and path.basename(filePath, extname)
pathParseName(fileName) ==
    IF fileName = "report.pdf-1700000000000-123456789.pdf"
    THEN "report.pdf-1700000000000-123456789"
    ELSE "notes.pdf-1700000000001-987654321"

\* statSync throws for a file that is not on disk, and the catch block
\* returns the basename without its extension
generatePdfId(fileName, onDisk, fileSize) ==
    IF onDisk
    THEN pathParseName(fileName) \o "_" \o md5Hex8(fileName, fileSize)
    ELSE pathParseName(fileName)

generatePdfIdCall(fileName, onDisk, fileSize) ==
    LET id == generatePdfId(fileName, onDisk, fileSize)
    IN  /\ generatedIds' = generatedIds \cup
              {[fileName |-> fileName, onDisk |-> onDisk,
                fileSize |-> IF onDisk THEN fileSize ELSE 0, id |-> id]}
        /\ lastCall' = [noCall EXCEPT !.op = "generatePdfId",
                           !.file = fileName, !.ok = onDisk,
                           !.count = IF onDisk THEN fileSize ELSE 0,
                           !.embeddingDocId = id]
        /\ UNCHANGED <<USE_LLM_MODEL, clock, uuids, user_queries, documents,
                       embeddingFiles, localStorage, chunkEmbeddings,
                       top3SimilarChunks, rag, returned, calls, docVars,
                       textChunks, uploadedFiles>>

FingerprintInit == DocInit /\ USE_LLM_MODEL

FingerprintNext ==
    \E fileName \in FileNames, onDisk \in BOOLEAN, fileSize \in FileSizes :
        generatePdfIdCall(fileName, onDisk, fileSize)

FingerprintSpec == FingerprintInit /\ [][FingerprintNext]_vars

(***************************************************************************)
(* POST /documents/upload.  multer stores the upload under                 *)
(* originalname-Date.now()-random.ext; f1 and f3 are two stored copies of  *)
(* the upload o1 (the same bytes under two suffixes), f2 is the stored     *)
(* copy of o2.  The handler awaits processPdf(request.file.path) and then, *)
(* without another await, inserts the document row and records the         *)
(* processing result.                                                      *)
(***************************************************************************)
MaxUploads == 3

Originals == {"o1", "o2"}

\* the names multer's filename callback can give an upload
storedAs(originalname) == IF originalname = "o1" THEN {"f1", "f3"} ELSE {"f2"}

originalnameOf(file) == IF file \in {"f1", "f3"} THEN "o1" ELSE "o2"

uploadFrame ==
    UNCHANGED <<USE_LLM_MODEL, clock, user_queries, localStorage,
                top3SimilarChunks, rag, returned, calls, crashes,
                generatedIds>>

\* the end of the handler: insertDocument, updateDocumentAfterProcessing
\* with parseEmbeddings' embeddingDocId and totalEmbeddings, the response
uploadResponds(job, embeddings, before, providerCalls, wrote, threw) ==
    LET docId == docIdText(uuidv4(uuids + 1))
    IN  /\ uuids' = uuids + 1
        /\ documents' =
              updateDocumentAfterProcessing(
                  insertDocument(documents, docId, originalnameOf(job.file),
                                 job.file),
                  docId, job.embeddingDocId, Len(embeddings))
        /\ lastCall' = [noCall EXCEPT !.op = "upload", !.file = job.file,
                           !.docId = docId,
                           !.embeddingDocId = job.embeddingDocId,
                           !.rows = before, !.count = providerCalls,
                           !.wrote = wrote, !.threw = threw]
        /\ jobDone' = [pc |-> "done", file |-> job.file,
                       embeddingDocId |-> job.embeddingDocId,
                       chunks |-> job.chunks, returned |-> embeddings,
                       saved |-> wrote,
                       savedText |-> IF wrote
                                     THEN saveEmbeddingsToFile(job.chunks,
                                                               embeddings)
                                     ELSE <<>>]

\* a statement of the Document Store throws at the end of the handler:
\* insertDocument throws and no row is written, or insertDocument has
\* written the row and updateDocumentAfterProcessing throws; the handler's
\* catch block removes the stored upload and answers 500
uploadStoreThrows(job, before, providerCalls, wrote, threw, atUpdate) ==
    LET docId == docIdText(uuidv4(uuids + 1))
    IN  /\ uuids' = uuids + 1
        /\ documents' =
              IF atUpdate
              THEN insertDocument(documents, docId, originalnameOf(job.file),
                                  job.file)
              ELSE documents
        /\ lastCall' = [noCall EXCEPT !.op = "upload", !.file = job.file,
                           !.docId = docId, !.ok = FALSE,
                           !.embeddingDocId = job.embeddingDocId,
                           !.rows = before, !.count = providerCalls,
                           !.wrote = wrote, !.threw = threw]
        /\ jobDone' = [pc |-> "failed", file |-> job.file,
                       embeddingDocId |-> job.embeddingDocId,
                       chunks |-> job.chunks, returned |-> <<>>,
                       saved |-> wrote,
                       savedText |-> <<>>]

\* the handler after processPdf has resolved: the success response, or the
\* catch block; stored is what ./storage/documents holds with this upload
uploadEnds(job, embeddings, before, providerCalls, wrote, threw, stored) ==
    \/ /\ uploadResponds(job, embeddings, before, providerCalls, wrote, threw)
       /\ uploadedFiles' = stored
    \/ /\ \E atUpdate \in BOOLEAN :
             uploadStoreThrows(job, before, providerCalls, wrote, threw,
                               atUpdate)
       /\ uploadedFiles' = stored \ {job.file}

\* saveEmbeddingsToFile(chunks, chunkEmbeddings, embeddingDocId)
uploadSaves(job, embeddings) ==
    LET text == saveEmbeddingsToFile(job.chunks, embeddings)
    IN  /\ written' = [written EXCEPT ![job.embeddingDocId] = @ \cup {text}]
        /\ embeddingFiles' = [embeddingFiles EXCEPT ![job.embeddingDocId] = text]
        /\ chunkEmbeddings' = embeddings

\* the request up to the first provider call, or to its response
uploadRequest(u, originalname) ==
    \E file \in storedAs(originalname) :
        LET job == [pc |-> "awaitEmbed", file |-> file,
                    embeddingDocId |-> generateEmbeddingDocId(file),
                    chunks |-> TextsOf(file), i |-> 1,
                    before |-> documents]
            existingEmbeddings ==
                loadExistingEmbeddings(embeddingFiles[job.embeddingDocId])
        IN  /\ jobs[u].pc = "idle"
            /\ \A v \in USlots : v < u => jobs[v].pc # "idle"
            /\ jobCount' = jobCount + 1
            /\ textChunks' = job.chunks
            /\ IF existingEmbeddings[1]
               THEN /\ chunkEmbeddings' = existingEmbeddings[2]
                    /\ uploadEnds(job, existingEmbeddings[2], documents,
                                  0, FALSE, FALSE, uploadedFiles \cup {file})
                    /\ UNCHANGED <<embeddingFiles, jobs, written>>
               ELSE IF USE_LLM_MODEL /\ Len(job.chunks) > 0
               THEN /\ chunkEmbeddings' = <<>>
                    /\ jobs' = [jobs EXCEPT ![u] = job]
                    /\ uploadedFiles' = uploadedFiles \cup {file}
                    /\ UNCHANGED <<embeddingFiles, written, documents, uuids,
                                   lastCall, jobDone>>
               ELSE /\ uploadSaves(job, embedChunks(job.chunks, FALSE))
                    /\ uploadEnds(job, embedChunks(job.chunks, FALSE),
                                  documents, 0, TRUE, FALSE,
                                  uploadedFiles \cup {file})
                    /\ UNCHANGED jobs
            /\ uploadFrame

\* generateEmbeddingFromGenAI resolves for chunk i of an upload
uploadEmbeddingReturns(u) ==
    /\ jobs[u].pc = "awaitEmbed"
    /\ LET job == jobs[u]
           list == pushed(chunkEmbeddings, job.i, job.chunks,
                          providerEmbedding(job.chunks[job.i]))
       IN  IF job.i < Len(job.chunks)
           THEN /\ chunkEmbeddings' = list
                /\ jobs' = [jobs EXCEPT ![u].i = job.i + 1]
                /\ UNCHANGED <<embeddingFiles, written, documents, uuids,
                               lastCall, jobDone, uploadedFiles>>
           ELSE /\ uploadSaves(job, list)
                /\ uploadEnds(job, list, job.before, job.i, TRUE, FALSE,
                              uploadedFiles)
                /\ jobs' = [jobs EXCEPT ![u] = idleJob]
    /\ UNCHANGED <<jobCount, textChunks>>
    /\ uploadFrame

\* generateEmbeddingFromGenAI rejects for chunk i: generateChunkEmbeddings
\* catches the error and returns [], so processPdf resolves with
\* parseEmbeddings([], embeddingDocId) and the handler goes on as after a
\* finished processing; nothing is saved
uploadEmbeddingFails(u) ==
    /\ jobs[u].pc = "awaitEmbed"
    /\ uploadEnds(jobs[u], <<>>, jobs[u].before, jobs[u].i, FALSE, TRUE,
                  uploadedFiles)
    /\ jobs' = [jobs EXCEPT ![u] = idleJob]
    /\ UNCHANGED <<embeddingFiles, written, chunkEmbeddings, jobCount,
                   textChunks>>
    /\ uploadFrame

\* pdfToText rejects (the upload is no readable PDF): the handler's catch
\* block removes the stored upload and answers 500; no document row is
\* inserted
uploadParseFails(originalname) ==
    \E file \in storedAs(originalname) :
        /\ jobCount' = jobCount + 1
        /\ uploadedFiles' = uploadedFiles \ {file}
        /\ lastCall' = [noCall EXCEPT !.op = "upload", !.file = file,
                           !.ok = FALSE, !.rows = documents]
        /\ jobDone' = [pc |-> "failed", file |-> file,
                       embeddingDocId |-> generateEmbeddingDocId(file),
                       chunks |-> <<>>, returned |-> <<>>,
                       saved |-> FALSE, savedText |-> <<>>]
        /\ UNCHANGED <<embeddingFiles, written, documents, uuids,
                       chunkEmbeddings, jobs, textChunks>>
        /\ uploadFrame

UploadInit == DocInit

UploadNext ==
    \/ \E u \in USlots, originalname \in Originals :
          jobCount < MaxUploads /\ uploadRequest(u, originalname)
    \/ \E u \in USlots : uploadEmbeddingReturns(u)
    \/ \E u \in USlots : uploadEmbeddingFails(u)
    \/ \E originalname \in Originals :
          jobCount < MaxUploads /\ uploadParseFails(originalname)

UploadSpec == UploadInit /\ [][UploadNext]_vars

(***************************************************************************)
(* The Embedding Cache by itself: direct calls of saveEmbeddingsToFile,    *)
(* loadExistingEmbeddings and deleteEmbeddings on the set files.           *)
(***************************************************************************)
MaxChunks == 2     \* chunks of one saved set

SetIds == {"e1", "e2"}

\* the id the saves go to; e2 is an id nothing was ever saved under
SavedIds == {"e1"}

SetTexts == {"t1", "t2"}

\* the vectors of a saved list: a provider result or an empty array
SetVectors == {providerEmbedding("t1"), <<>>}

ChunkLists == UNION {[1..n -> SetTexts] : n \in 0..MaxChunks}

VectorLists(n) == [1..n -> SetVectors]

\* the embeddings argument: objects with an `embedding` property
withEmbedding(vectors) == [i \in DOMAIN vectors |-> [embedding |-> vectors[i]]]

setFrame ==
    UNCHANGED <<USE_LLM_MODEL, clock, uuids, user_queries, documents,
                localStorage, chunkEmbeddings, top3SimilarChunks, rag,
                returned, calls, jobs, jobDone, jobCount, written,
                generatedIds, textChunks, uploadedFiles>>

\* saveEmbeddingsToFile(chunks, embeddings, id): writeFileSync runs to its
\* end, or the process dies inside it and a proper prefix is left
saveEmbeddingsToFileCall(id, chunks, vectors) ==
    LET text == saveEmbeddingsToFile(chunks, withEmbedding(vectors))
        call == [noCall EXCEPT !.op = "saveEmbeddingsToFile",
                               !.embeddingDocId = id, !.chunks = chunks,
                               !.rows = withEmbedding(vectors)]
    IN  /\ \/ /\ embeddingFiles' = [embeddingFiles EXCEPT ![id] = text]
              /\ lastCall' = [call EXCEPT !.wrote = TRUE]
              /\ UNCHANGED crashes
           \/ /\ crashes < MaxCrashes
              /\ crashes' = crashes + 1
              /\ \E partial \in properPrefixes(text) :
                    embeddingFiles' = [embeddingFiles EXCEPT ![id] = partial]
              /\ lastCall' = [call EXCEPT !.ok = FALSE]
        /\ setFrame

\* loadExistingEmbeddings(id): the chunk list, or null
loadExistingEmbeddingsCall(id) ==
    /\ LET loaded == loadExistingEmbeddings(embeddingFiles[id])
       IN  lastCall' = [noCall EXCEPT !.op = "loadExistingEmbeddings",
                           !.embeddingDocId = id, !.ok = loaded[1],
                           !.rows = loaded[2]]
    /\ UNCHANGED <<embeddingFiles, crashes>>
    /\ setFrame

\* deleteEmbeddings(id): true when a file was removed
deleteEmbeddingsCall(id) ==
    /\ embeddingFiles' =
          [embeddingFiles EXCEPT ![id] = IF fileExists(@)
                                         THEN deleteEmbeddings(@) ELSE @]
    /\ lastCall' = [noCall EXCEPT !.op = "deleteEmbeddings",
                       !.embeddingDocId = id,
                       !.ok = fileExists(embeddingFiles[id])]
    /\ UNCHANGED crashes
    /\ setFrame

SetInit == DocInit /\ USE_LLM_MODEL

SetNext ==
    \/ \E id \in SavedIds, chunks \in ChunkLists :
          \E vectors \in VectorLists(Len(chunks)) :
              saveEmbeddingsToFileCall(id, chunks, vectors)
    \/ \E id \in SetIds : loadExistingEmbeddingsCall(id)
    \/ \E id \in SetIds : deleteEmbeddingsCall(id)

SetSpec == SetInit /\ [][SetNext]_vars

(***************************************************************************)
(* The prompt cache by itself: direct calls of storePromptEmbedding,       *)
(* getStoredPromptEmbedding and clearPromptCache.                          *)
(***************************************************************************)
CachePrompts == Prompts \cup { <<"\t", "a">>, <<"B", " ">> }

CacheVectors == {promptPlaceholder, providerEmbedding("t1")}

cacheFrame ==
    UNCHANGED <<USE_LLM_MODEL, clock, uuids, user_queries, documents,
                embeddingFiles, chunkEmbeddings, top3SimilarChunks, rag,
                returned, calls, docVars, generatedIds, textChunks, uploadedFiles>>

storePromptEmbeddingCall(prompt, embedding) ==
    /\ localStorage' = storePromptEmbedding(localStorage, prompt, embedding)
    /\ lastCall' = [noCall EXCEPT !.op = "storePromptEmbedding",
                       !.prompt = prompt, !.rows = embedding]
    /\ cacheFrame

\* getStoredPromptEmbedding(prompt): data.embedding, or null
getStoredPromptEmbeddingCall(prompt) ==
    /\ LET stored == getStoredPromptEmbedding(localStorage, prompt)
       IN  \/ /\ stored = {}
              /\ lastCall' = [noCall EXCEPT !.op = "getStoredPromptEmbedding",
                                 !.prompt = prompt, !.ok = FALSE]
           \/ \E e \in stored :
                lastCall' = [noCall EXCEPT !.op = "getStoredPromptEmbedding",
                                !.prompt = prompt, !.rows = e.embedding]
    /\ UNCHANGED localStorage
    /\ cacheFrame

clearPromptCacheCall ==
    /\ localStorage' = clearPromptCache(localStorage)
    /\ lastCall' = [noCall EXCEPT !.op = "clearPromptCache",
                       !.count = Cardinality(localStorage)]
    /\ cacheFrame

CacheInit == DocInit /\ USE_LLM_MODEL

CacheNext ==
    \/ \E prompt \in CachePrompts, embedding \in CacheVectors :
          storePromptEmbeddingCall(prompt, embedding)
    \/ \E prompt \in CachePrompts : getStoredPromptEmbeddingCall(prompt)
    \/ clearPromptCacheCall

CacheSpec == CacheInit /\ [][CacheNext]_vars

(***************************************************************************)
(* Similarity search by itself: direct calls of findTopSimilarChunks       *)
(* (promptEmbedding, chunkEmbeddings, filePath) and of the ranking it is   *)
(* built from, selectTopSimilarChunks over calculateSimilarityScores.      *)
(***************************************************************************)
MaxCandidates == 2

MaxTopN == 3

\* chunk records a caller can pass: t1 and t2 score the same against t3's
\* vector, t3 scores highest, and the last one has a vector of another length
CandidatePool ==
    { [chunkIndex |-> 0, text |-> "t1", embedding |-> providerEmbedding("t1")],
      [chunkIndex |-> 1, text |-> "t2", embedding |-> providerEmbedding("t2")],
      [chunkIndex |-> 2, text |-> "t3", embedding |-> providerEmbedding("t3")],
      [chunkIndex |-> 3, text |-> "t4",
       embedding |-> << [tag |-> "values", nums |-> <<1, 0>>] >>] }

\* lists of distinct chunks, in every order
CandidateLists ==
    UNION { { l \in [1..n -> CandidatePool] :
                \A i, j \in 1..n : l[i] = l[j] => i = j } :
            n \in 0..MaxCandidates }

\* prompt embeddings: a provider result, an empty array, the placeholder
SearchPrompts == { providerEmbedding("t3"), <<>>, promptPlaceholder }

SearchIds == {"e1", "e2"}

\* the set stored under e1 and the list a finished processing run leaves in
\* the process-wide chunkEmbeddings
StoredChunks == <<"t3", "t2">>

StoredSet ==
    saveEmbeddingsToFile(StoredChunks,
        withEmbedding([i \in DOMAIN StoredChunks |->
                          providerEmbedding(StoredChunks[i])]))

searchFrame ==
    UNCHANGED <<USE_LLM_MODEL, clock, uuids, user_queries, documents,
                embeddingFiles, localStorage, chunkEmbeddings, rag, returned,
                calls, docVars, generatedIds, textChunks, uploadedFiles>>

\* findTopSimilarChunks(promptEmbedding, chunkEmbeddings, filePath): every
\* error is caught inside, so the call always returns to its caller
findTopSimilarChunksCall(promptEmbedding, passed, id) ==
    LET found == findTopSimilarChunks(promptEmbedding, passed,
                     embeddingFiles[id], chunkEmbeddings, top3SimilarChunks)
    IN  /\ top3SimilarChunks' = found.top3
        /\ lastCall' = [noCall EXCEPT !.op = "findTopSimilarChunks",
                           !.promptEmbedding = promptEmbedding,
                           !.candidates = passed, !.embeddingDocId = id,
                           !.rows = found.scored, !.result = found.result,
                           !.threw = found.threw, !.ok = TRUE,
                           !.count = DEFAULT_TOP_CHUNKS]
        /\ searchFrame

\* selectTopSimilarChunks(calculateSimilarityScores(promptEmbedding,
\* embeddings), topN) on inputs that can be scored
selectTopSimilarChunksCall(promptEmbedding, embeddings, topN) ==
    /\ validateSimilaritySearchInputs(promptEmbedding, embeddings)
    /\ ~calculateSimilarityScoresThrows(promptEmbedding, embeddings)
    /\ lastCall' = [noCall EXCEPT !.op = "selectTopSimilarChunks",
                       !.promptEmbedding = promptEmbedding,
                       !.candidates = embeddings, !.count = topN,
                       !.rows = calculateSimilarityScores(promptEmbedding,
                                                          embeddings),
                       !.result = selectTopSimilarChunks(
                                      calculateSimilarityScores(
                                          promptEmbedding, embeddings), topN)]
    /\ UNCHANGED top3SimilarChunks
    /\ searchFrame

SearchInit ==
    /\ USE_LLM_MODEL = TRUE
    /\ clock = 0
    /\ uuids = 0
    /\ user_queries = <<>>
    /\ documents = <<>>
    /\ embeddingFiles = [id \in EmbIds |-> IF id = "e1" THEN StoredSet ELSE NoFile]
    /\ localStorage = {}
    /\ chunkEmbeddings \in {<<>>, loadExistingEmbeddings(StoredSet)[2]}
    /\ top3SimilarChunks = <<>>
    /\ rag = [s \in RSlots |-> idleRag]
    /\ returned = idleRag
    /\ calls = 0
    /\ jobs = [u \in USlots |-> idleJob]
    /\ jobDone = noJobDone
    /\ jobCount = 0
    /\ crashes = 0
    /\ written = [id \in EmbIds |-> {}]
    /\ lastCall = noCall
    /\ generatedIds = {}
    /\ textChunks = <<>>
    /\ uploadedFiles = {}

SearchNext ==
    \/ \E promptEmbedding \in SearchPrompts, passed \in CandidateLists,
          id \in SearchIds :
          findTopSimilarChunksCall(promptEmbedding, passed, id)
    \/ \E promptEmbedding \in SearchPrompts, embeddings \in CandidateLists,
          topN \in 0..MaxTopN :
          selectTopSimilarChunksCall(promptEmbedding, embeddings, topN)

SearchSpec == SearchInit /\ [][SearchNext]_vars

(***************************************************************************)
(* The chunker (chunk.generator.js).  A text is the sequence of its        *)
(* characters.                                                             *)
(***************************************************************************)
Separators == {".", "!", "?"}

\* text.split(/[.!?]+/): the pieces between the runs of separators
RECURSIVE splitSentences(_)
splitSentences(text) ==
    IF \A i \in DOMAIN text : text[i] \notin Separators THEN <<text>>
    ELSE LET i == CHOOSE k \in DOMAIN text :
                      /\ text[k] \in Separators
                      /\ \A m \in 1..(k - 1) : text[m] \notin Separators
             j == CHOOSE k \in i..Len(text) :
                      /\ \A m \in i..k : text[m] \in Separators
                      /\ k = Len(text) \/ text[k + 1] \notin Separators
         IN  <<SubSeq(text, 1, i - 1)>> \o
             splitSentences(SubSeq(text, j + 1, Len(text)))

\* sentence.split(' '): the pieces between single spaces
RECURSIVE splitWords(_)
splitWords(sentence) ==
    IF \A i \in DOMAIN sentence : sentence[i] # " " THEN <<sentence>>
    ELSE LET i == CHOOSE k \in DOMAIN sentence :
                      /\ sentence[k] = " "
                      /\ \A m \in 1..(k - 1) : sentence[m] # " "
         IN  <<SubSeq(sentence, 1, i - 1)>> \o
             splitWords(SubSeq(sentence, i + 1, Len(sentence)))

\* a buffer that takes the new sentence in place of what it held
appendSentence_replacing(currentChunk, sentence) == sentence

\* currentChunk += (currentChunk ? '. ' : '') + sentence
appendSentence(currentChunk, sentence) ==
    currentChunk \o (IF currentChunk # <<>> THEN <<".", " ">> ELSE <<>>) \o
    sentence

\* wordChunk += (wordChunk ? ' ' : '') + word
appendWord(wordChunk, word) ==
    wordChunk \o (IF wordChunk # <<>> THEN <<" ">> ELSE <<>>) \o word

\* the body of the loop over the words of a sentence longer than maxChunkSize
wordStep(acc, word, maxChunkSize) ==
    IF Len(acc.wordChunk) + Len(word) + 1 > maxChunkSize
    THEN IF acc.wordChunk # <<>>
         THEN [textChunks |-> Append(acc.textChunks, jsTrim(acc.wordChunk)),
               wordChunk |-> word]
         ELSE [textChunks |-> Append(acc.textChunks, word), wordChunk |-> <<>>]
    ELSE [acc EXCEPT !.wordChunk = appendWord(@, word)]

RECURSIVE wordLoop(_, _, _)
wordLoop(acc, words, maxChunkSize) ==
    IF words = <<>> THEN acc
    ELSE wordLoop(wordStep(acc, Head(words), maxChunkSize), Tail(words),
                  maxChunkSize)

\* the body of the loop over the sentences
sentenceStep(acc, untrimmed, maxChunkSize) ==
    LET sentence == jsTrim(untrimmed)
        flushed == IF acc.currentChunk # <<>>
                   THEN Append(acc.textChunks, jsTrim(acc.currentChunk))
                   ELSE acc.textChunks
    IN  IF sentence = <<>> THEN acc
        ELSE IF Len(acc.currentChunk) + Len(sentence) + 1 > maxChunkSize
        THEN IF Len(sentence) > maxChunkSize
             THEN LET done == wordLoop([textChunks |-> flushed,
                                        wordChunk |-> <<>>],
                                       splitWords(sentence), maxChunkSize)
                  IN  [textChunks |-> done.textChunks,
                       currentChunk |-> done.wordChunk]
             ELSE [textChunks |-> flushed, currentChunk |-> sentence]
        ELSE [acc EXCEPT !.currentChunk = appendSentence(@, sentence)]

RECURSIVE sentenceLoop(_, _, _)
sentenceLoop(acc, sentences, maxChunkSize) ==
    IF sentences = <<>> THEN acc
    ELSE sentenceLoop(sentenceStep(acc, Head(sentences), maxChunkSize),
                      Tail(sentences), maxChunkSize)

notBlank(sentence) == jsTrim(sentence) # <<>>

\* createTextChunks(text, maxChunkSize): the returned array
createTextChunks(text, maxChunkSize) ==
    IF text = <<>> \/ jsTrim(text) = <<>> THEN <<>>
    ELSE LET sentences == SelectSeq(splitSentences(text), notBlank)
             done == sentenceLoop([textChunks |-> <<>>, currentChunk |-> <<>>],
                                  sentences, maxChunkSize)
         IN  IF jsTrim(done.currentChunk) # <<>>
             THEN Append(done.textChunks, jsTrim(done.currentChunk))
             ELSE done.textChunks

(***************************************************************************)
(* The chunker by itself: one call createTextChunks(text, maxChunkSize)    *)
(* with the arguments the caller has chosen.                               *)
(***************************************************************************)
MaxTextLen == 6

MaxChunkSize == 4

TextChars == {"a", "b", " ", "."}

Texts == UNION { [1..n -> TextChars] : n \in 0..MaxTextLen }

\* the call with its arguments, before it runs
pendingCreateTextChunks(text, maxChunkSize) ==
    [noCall EXCEPT !.op = "call createTextChunks", !.prompt = text,
                   !.count = maxChunkSize]

\* createTextChunks runs: textChunks is reset, filled and returned
createTextChunksCall ==
    /\ lastCall.op = "call createTextChunks"
    /\ textChunks' = createTextChunks(lastCall.prompt, lastCall.count)
    /\ lastCall' = [lastCall EXCEPT !.op = "createTextChunks",
                       !.chunks = createTextChunks(lastCall.prompt,
                                                   lastCall.count)]
    /\ UNCHANGED <<USE_LLM_MODEL, clock, uuids, user_queries, documents,
                   embeddingFiles, localStorage, chunkEmbeddings,
                   top3SimilarChunks, rag, returned, calls, docVars,
                   generatedIds, uploadedFiles>>

ChunkInit ==
    /\ USE_LLM_MODEL = TRUE
    /\ clock = 0
    /\ uuids = 0
    /\ user_queries = <<>>
    /\ documents = <<>>
    /\ embeddingFiles = [id \in EmbIds |-> NoFile]
    /\ localStorage = {}
    /\ chunkEmbeddings = <<>>
    /\ top3SimilarChunks = <<>>
    /\ rag = [s \in RSlots |-> idleRag]
    /\ returned = idleRag
    /\ calls = 0
    /\ jobs = [u \in USlots |-> idleJob]
    /\ jobDone = noJobDone
    /\ jobCount = 0
    /\ crashes = 0
    /\ written = [id \in EmbIds |-> {}]
    /\ generatedIds = {}
    /\ textChunks = <<>>
    /\ uploadedFiles = {}
    /\ \E text \in Texts, maxChunkSize \in 1..MaxChunkSize :
          lastCall = pendingCreateTextChunks(text, maxChunkSize)

ChunkNext == createTextChunksCall

ChunkSpec == ChunkInit /\ [][ChunkNext]_vars

(***************************************************************************)
(* Inserts into both tables among soft deletes and purges: what            *)
(* insertQuery and insertDocument return.                                  *)
(***************************************************************************)
MaxInserts == 3    \* rows ever inserted, both tables together

InsertNext ==
    \/ \E prompt \in SamePrompts, answer \in StoreAnswers :
          uuids < MaxInserts /\ insertQueryCall(prompt, answer)
    \/ uuids < MaxInserts /\ insertDocumentCall
    \/ \E queryId \in 1..MaxInserts : deleteQueryCall(queryId)
    \/ \E n \in 1..MaxInserts : deleteDocumentCall(docIdText(n))
    \/ deleteAllQueriesCall

InsertSpec == RowInit /\ [][InsertNext]_vars

(***************************************************************************)
(* Processing again under an id that may hold a set: f1 and f5 have the    *)
(* same embeddingDocId and different chunks.                               *)
(***************************************************************************)
SameIdFiles == {"f1", "f5"}

ReprocessNext ==
    \/ \E u \in USlots, file \in SameIdFiles :
          jobCount < MaxJobs /\ generateChunkEmbeddings(u, file)
    \/ \E u \in USlots : embeddingReturns(u)
    \/ \E u \in USlots : embeddingFails(u)

ReprocessSpec == DocInit /\ [][ReprocessNext]_vars

(***************************************************************************)
(* Questions against every kind of document reference: d1 is processed, d2 *)
(* names a set that holds nothing, d3 was soft-deleted, d4 was uploaded    *)
(* but not processed (embeddingDocId NULL), dX names no row.               *)
(***************************************************************************)
HitRefs == {"d1", "d2", "d3", "d4", "dX"}

HitInit ==
    /\ USE_LLM_MODEL \in BOOLEAN
    /\ clock = 0
    /\ uuids = 0
    /\ user_queries = <<>>
    /\ documents = <<documentRow("d1", "o1", "f1", "e1", 2),
                      documentRow("d2", "o2", "f2", "e2", 0),
                      [documentRow("d3", "o3", "f3", "e1", 2)
                          EXCEPT !.isDeleted = 1],
                      documentRow("d4", "o4", "f4", "", 0)>>
    /\ embeddingFiles =
          [id \in EmbIds |->
              IF id = "e1"
              THEN saveEmbeddingsToFile(TextsOfD1,
                                        embedChunks(TextsOfD1, USE_LLM_MODEL))
              ELSE IF USE_LLM_MODEL THEN NoFile
              ELSE saveEmbeddingsToFile(<<>>, <<>>)]
    /\ localStorage = {}
    /\ chunkEmbeddings = <<>>
    /\ top3SimilarChunks = <<>>
    /\ rag = [s \in RSlots |-> idleRag]
    /\ returned = idleRag
    /\ calls = 0
    /\ jobs = [u \in USlots |-> idleJob]
    /\ jobDone = noJobDone
    /\ jobCount = 0
    /\ crashes = 0
    /\ written = [id \in EmbIds |->
                    IF fileExists(embeddingFiles[id])
                    THEN {embeddingFiles[id]} ELSE {}]
    /\ lastCall = noCall
    /\ generatedIds = {}
    /\ textChunks = <<>>
    /\ uploadedFiles = {}

HitNext ==
    \/ \E s \in RSlots, userPrompt \in SamePrompts, docId \in HitRefs :
          calls < MaxAsks /\ processPromptStart(s, userPrompt, docId)
    \/ \E s \in RSlots : processPromptNoDocument(s)
    \/ \E s \in RSlots : processPromptRetrieve(s)
    \/ \E s \in RSlots, text \in Answers : generateAnswerReturns(s, text)
    \/ \E s \in RSlots : generateAnswerFails(s)
    \/ \E s \in RSlots : saveQueryToDatabase(s)
    \/ \E queryId \in 1..MaxAsks : softDeleteQuery(queryId)

HitSpec == HitInit /\ [][HitNext]_vars

(***************************************************************************)
(* Feedback and deletion on the rows of the Query Store: rows are inserted, *)
(* rated, soft-deleted one by one or all at once, and purged.              *)
(***************************************************************************)
FeedbackNext ==
    \/ \E answer \in StoreAnswers :
          uuids < MaxIds /\ insertQueryCall(<<"a">>, answer)
    \/ \E queryId \in 1..MaxIds, liked \in FeedbackValues,
          disliked \in FeedbackValues :
          updateQueryFeedbackCall(queryId, liked, disliked)
    \/ \E queryId \in 1..MaxIds : deleteQueryCall(queryId)
    \/ softDeleteAllQueriesCall
    \/ deleteAllQueriesCall

FeedbackSpec == StoreInit /\ [][FeedbackNext]_vars

(***************************************************************************)
(* Claims about processPrompt.                                             *)
(***************************************************************************)
rowOfId(id) == {r \in rowsOf(user_queries) : r.queryId = id}

\* the step starts a processPrompt call
startStep == calls' = calls + 1

\* the call that ended last returned cached=false with a row that is still
\* there, not deleted, and no matching row was inserted after it or carries
\* a later createdAt
freshRowStands ==
    /\ returned.pc = "done"
    /\ ~returned.cached
    /\ \E i \in DOMAIN user_queries :
         /\ user_queries[i].queryId = returned.queryId
         /\ user_queries[i].isDeleted = 0
         /\ \A j \in DOMAIN user_queries :
              (/\ sqlNormalize(user_queries[j].prompt) =
                    sqlNormalize(returned.userPrompt)
               /\ user_queries[j].isDeleted = 0
               /\ j # i)
              => (j < i /\ user_queries[j].createdAt <= user_queries[i].createdAt)

\* C1: after a call for prompt p returned cached=false with queryId q and
\* answer a, a later call whose prompt normalizes like p (row q not deleted,
\* no newer matching row) returns cached=true with q and a and calls no
\* provider.
C1_SecondAskIsCached ==
    [][ (startStep /\ freshRowStands) =>
          /\ \A s \in RSlots :
               rag'[s] # rag[s] =>
                 sqlNormalize(rag'[s].userPrompt) # sqlNormalize(returned.userPrompt)
          /\ (/\ rag' = rag
              /\ sqlNormalize(returned'.userPrompt) =
                   sqlNormalize(returned.userPrompt))
             => /\ returned'.cached
                /\ returned'.queryId = returned.queryId
                /\ returned'.answer = returned.answer
                /\ returned'.embedCalls = 0
                /\ returned'.genCalls = 0 ]_vars

\* C2: a Query row is inserted only after the generation step returned an
\* answer; a call that ended in failure inserted no row.
C2_InsertOnlyAfterGeneration ==
    /\ \A s \in RSlots : rag[s].inserted = {}
    /\ returned.pc = "failed" => returned.inserted = {}
    /\ returned.inserted # {} =>
         /\ returned.generation \in {"returned", "static"}
         /\ \A id \in returned.inserted :
              \E r \in rowOfId(id) : r.answer = returned.answer

C2_Witness ==
    /\ returned.pc = "failed"
    /\ returned.failedAt = "generation"
    /\ returned.genCalls = 1

\* C3: when the docId resolves to no embeddingDocId the call fails, and
\* before that failure no provider was called and nothing was written to
\* the prompt cache.
C3_FailsBeforeAnyEffect ==
    (returned.pc = "failed" /\ returned.failedAt = "resolve") =>
        /\ returned.embedCalls = 0
        /\ returned.genCalls = 0
        /\ returned.cacheWrites = 0

\* the chunks stored under an embeddingDocId
storedChunks(id) ==
    LET loaded == loadChunkEmbeddingsFromFile(embeddingFiles[id])
    IN  {loaded[i] : i \in DOMAIN loaded}

C5_NoSwallowedFailure ==
    /\ \A s \in RSlots :
         rag[s].search.threw => rag[s].pc \notin {"awaitGen", "persist"}
    /\ returned.search.threw => returned.pc = "failed"

\* C6: on an exact-match hit the call returns the cached row at once, and
\* the Query Store, the prompt cache, the embedding files and the
\* process-wide lists are left as they were; no call goes on past a hit.
C6_HitChangesNothing ==
    [][ startStep =>
          /\ \A s \in RSlots :
               rag'[s] # rag[s] =>
                 findQueryByPrompt(user_queries, rag'[s].userPrompt) = {}
          /\ rag' = rag =>
               /\ returned'.cached
               /\ \E r \in findQueryByPrompt(user_queries, returned'.userPrompt) :
                    r.queryId = returned'.queryId /\ r.answer = returned'.answer
               /\ returned'.inserted = {}
               /\ returned'.cacheWrites = 0
               /\ returned'.setReads = 0
               /\ returned'.embedCalls = 0
               /\ returned'.genCalls = 0
               /\ UNCHANGED <<storeVars, uuids, chunkEmbeddings,
                              top3SimilarChunks>> ]_vars

C6_Witness ==
    /\ returned.pc = "done"
    /\ returned.cached
    /\ rowOfId(returned.queryId) # {}

\* C9: concurrent calls with the same normalized prompt that both miss both
\* complete; a call that returns cached=false inserted exactly one row and
\* returns its queryId; no insert fails, and queryIds never repeat.
C9_ConcurrentMissesBothInsert ==
    /\ (returned.pc = "done" /\ ~returned.cached) =>
         /\ returned.inserted = {returned.queryId}
         /\ \E r \in rowOfId(returned.queryId) :
              r.prompt = returned.userPrompt /\ r.answer = returned.answer
    /\ returned.pc = "failed" => returned.failedAt \in {"resolve", "generation"}
    /\ \A i, j \in DOMAIN user_queries :
         i # j => user_queries[i].queryId # user_queries[j].queryId

\* two rows of the same normalized prompt, neither deleted: the second
\* call looked the prompt up before the first inserted its row
C9_Witness ==
    /\ returned.pc = "done"
    /\ ~returned.cached
    /\ \E i, j \in DOMAIN user_queries :
         /\ i < j
         /\ sqlNormalize(user_queries[i].prompt) = sqlNormalize(user_queries[j].prompt)
         /\ user_queries[i].isDeleted = 0
         /\ user_queries[j].isDeleted = 0
         /\ user_queries[j].queryId = returned.queryId

(***************************************************************************)
(* Claims about document processing and the embedding files.               *)
(***************************************************************************)
\* two calls were started, for different documents; one has ended and the
\* other still awaits the embedding provider
twoDocumentsInterleaved ==
    /\ jobCount = 2
    /\ \E u \in USlots :
         jobs[u].pc = "awaitEmbed" /\ jobs[u].file # jobDone.file

\* C7: when two generateChunkEmbeddings calls for different documents
\* interleave at their provider awaits, a call that generated and saved
\* returns and saves exactly the chunks of its own document, each text with
\* the vector computed for it, chunkIndex 0..n-1 in source order.
C7_EachCallItsOwnChunks ==
    (jobDone.pc = "done" /\ jobDone.saved /\ twoDocumentsInterleaved) =>
        /\ jobDone.returned = embedChunks(jobDone.chunks, USE_LLM_MODEL)
        /\ jobDone.savedText =
             saveEmbeddingsToFile(jobDone.chunks,
                                  embedChunks(jobDone.chunks, USE_LLM_MODEL))

\* C8: a load returns not-found or a complete set that a save was given,
\* never a part of one, also after an interrupted save; after a save that
\* ran to its end the file holds that save's complete text.
C8_LoadNeverSeesPartialSet ==
    /\ \A id \in EmbIds :
         LET loaded == loadEmbeddingsFromFile(embeddingFiles[id])
         IN  loaded[1] => stringify(loaded[2]) \in written[id]
    /\ (jobDone.pc = "done" /\ jobDone.saved) =>
         /\ embeddingFiles[jobDone.embeddingDocId] = jobDone.savedText
         /\ loadEmbeddingsFromFile(jobDone.savedText)[1]

\* a save was interrupted after it had written some chunks: the file holds
\* a part of the text, and a load finds nothing
C8_Witness ==
    /\ jobDone.pc = "crashed"
    /\ Len(embeddingFiles[jobDone.embeddingDocId]) >= 2
    /\ embeddingFiles[jobDone.embeddingDocId] \in properPrefixes(jobDone.savedText)
    /\ ~loadEmbeddingsFromFile(embeddingFiles[jobDone.embeddingDocId])[1]

(***************************************************************************)
(* Termination.  The event loop runs every continuation that is ready, so  *)
(* the steps of processPrompt that wait for nothing outside the process    *)
(* are taken; nothing makes a provider answer.                             *)
(***************************************************************************)
LiveSpec ==
    /\ Init
    /\ [][Next]_vars
    /\ \A s \in RSlots :
         /\ WF_vars(processPromptNoDocument(s))
         /\ WF_vars(processPromptRetrieve(s))
         /\ WF_vars(saveQueryToDatabase(s))

\* C10: every processPrompt call eventually ends, in success or in failure,
\* also when the generation provider never answers.
C10_EveryCallEnds ==
    \A s \in RSlots : (rag[s].pc # "idle") ~> (rag[s].pc = "idle")

(***************************************************************************)
(* Claims about the Query Store.                                           *)
(***************************************************************************)
tableRow(queryId) ==
    {user_queries[j] : j \in {k \in DOMAIN user_queries :
                                  user_queries[k].queryId = queryId}}

\* C12: a soft-deleted query (deleteQuery or softDeleteAllQueries) is in no
\* later getAllQueries result and in no later findQueryByPrompt result, so
\* no prompt is answered from a soft-deleted row.
C12_SoftDeletedNeverListed ==
    /\ lastCall.op \in {"getAllQueries", "findQueryByPrompt"} =>
          \A i \in DOMAIN lastCall.rows :
              \E r \in tableRow(lastCall.rows[i].queryId) :
                  r = lastCall.rows[i] /\ r.isDeleted = 0
    /\ \A prompt \in Prompts :
          \A r \in findQueryByPrompt(user_queries, prompt) : r.isDeleted = 0

C12_Witness ==
    /\ lastCall.op = "getAllQueries"
    /\ Len(lastCall.rows) = 1
    /\ Len(user_queries) = 2
    /\ \E r \in tableRow(1) : r.isDeleted = 1

\* C13: a soft-deleted query row stays retrievable by direct id: until a
\* hard delete or truncate, getQueryById with its queryId returns the row.
C13_SoftDeletedStillRetrievable ==
    lastCall.op = "getQueryById" =>
        \A r \in tableRow(lastCall.queryId) :
            r.isDeleted = 1 => lastCall.ok /\ lastCall.rows = <<r>>

suppliedFlag(value, stored) ==
    IF value = "undefined" THEN stored ELSE IF value = "true" THEN 1 ELSE 0

\* C14: a feedback update overwrites liked, and disliked, only if that field
\* is supplied; the other flag and every other column of the row, and every
\* other row, stay as they were.  An update with only liked = true leaves a
\* stored disliked = 1 as it was.
C14_FeedbackIsPartialUpdate ==
    [][lastCall'.op = "updateQueryFeedback" =>
          /\ Len(user_queries') = Len(user_queries)
          /\ \A i \in DOMAIN user_queries :
                LET old == user_queries[i]
                    new == user_queries'[i]
                    addressed == old.queryId = lastCall'.queryId
                                    /\ old.isDeleted = 0
                IN  /\ new.liked = IF addressed
                                   THEN suppliedFlag(lastCall'.liked, old.liked)
                                   ELSE old.liked
                    /\ new.disliked = IF addressed
                                      THEN suppliedFlag(lastCall'.disliked,
                                                        old.disliked)
                                      ELSE old.disliked
                    /\ [new EXCEPT !.liked = old.liked,
                                   !.disliked = old.disliked] = old]_vars

C14_Witness ==
    /\ lastCall.op = "updateQueryFeedback"
    /\ lastCall.liked = "true"
    /\ lastCall.disliked = "undefined"
    /\ lastCall.ok
    /\ \E r \in tableRow(lastCall.queryId) : r.liked = 1 /\ r.disliked = 1

(***************************************************************************)
(* Claims about the life of a row.                                         *)
(***************************************************************************)
\* where the row with an id stands: 0 not yet inserted, 1 active,
\* 2 soft-deleted, 3 purged
queryRank(table, issued, n) ==
    LET rows == {i \in DOMAIN table : table[i].queryId = n}
    IN  IF rows = {} THEN (IF n > issued THEN 0 ELSE 3)
        ELSE IF \E i \in rows : table[i].isDeleted = 0 THEN 1 ELSE 2

documentRank(table, issued, n) ==
    LET rows == {i \in DOMAIN table : table[i].docId = docIdText(n)}
    IN  IF rows = {} THEN (IF n > issued THEN 0 ELSE 3)
        ELSE IF \E i \in rows : table[i].isDeleted = 0 THEN 1 ELSE 2

\* C15: every Query row and every Document row only moves along
\* active -> soft-deleted -> purged: no step returns a soft-deleted row to
\* active, none brings back a purged row or gives its id to a new row, and
\* deleteAllQueries, truncateTable and deleteAllDocuments purge the active
\* and the soft-deleted rows alike.
C15_RowsOnlyMoveForward ==
    [][/\ \A n \in 1..uuids' :
             /\ queryRank(user_queries', uuids', n)
                   >= queryRank(user_queries, uuids, n)
             /\ documentRank(documents', uuids', n)
                   >= documentRank(documents, uuids, n)
       /\ \A i \in DOMAIN user_queries' :
             Cardinality({j \in DOMAIN user_queries' :
                 user_queries'[j].queryId = user_queries'[i].queryId}) = 1
       /\ \A i \in DOMAIN documents' :
             Cardinality({j \in DOMAIN documents' :
                 documents'[j].docId = documents'[i].docId}) = 1
       /\ lastCall'.op \in {"deleteAllQueries", "truncateTable"} =>
             \A n \in 1..uuids' : queryRank(user_queries', uuids', n) = 3
       /\ lastCall'.op = "deleteAllDocuments" =>
             \A n \in 1..uuids' : documentRank(documents', uuids', n) = 3
      ]_vars

\* a hard delete purged both query rows while the one document, soft-deleted
\* before, is still in its table
C15_Witness ==
    /\ lastCall.op = "deleteAllQueries"
    /\ lastCall.count = 2
    /\ user_queries = <<>>
    /\ Len(documents) = 1
    /\ documents[1].isDeleted = 1

\* C16: truncateTable clears the Query Store and completes successfully:
\* after the call the store holds no row, active or soft-deleted, the call
\* returns true and the clear request answers with success.
C16_TruncateClearsAndSucceeds ==
    lastCall.op = "truncateTable" => user_queries = <<>> /\ lastCall.ok

\* the place of a row in insertion order
insertedAt(queryId) ==
    CHOOSE i \in DOMAIN user_queries : user_queries[i].queryId = queryId

\* C17: getAllQueries returns the min(10, n) most recently inserted
\* non-deleted rows, newest first: of two returned rows the one inserted
\* later comes first, and no non-deleted row left out was inserted later
\* than a returned one.
C17_ListingNewestFirst ==
    lastCall.op = "getAllQueries" =>
        LET rows == lastCall.rows
            alive == notDeleted(user_queries)
            listed == {rows[i].queryId : i \in DOMAIN rows}
        IN  /\ Len(rows) = IF Len(alive) < 10 THEN Len(alive) ELSE 10
            /\ \A i, j \in DOMAIN rows :
                  i < j => insertedAt(rows[i].queryId)
                              > insertedAt(rows[j].queryId)
            /\ \A k \in DOMAIN alive :
                  alive[k].queryId \notin listed =>
                      \A id \in listed :
                          insertedAt(alive[k].queryId) < insertedAt(id)

\* C18: findQueryByPrompt(p) returns, among the non-deleted rows whose
\* prompt equals p after trimming and lower-casing, the one inserted most
\* recently, and not-found exactly when there is no such row.
C18_LookupReturnsLatestMatch ==
    lastCall.op = "findQueryByPrompt" =>
        LET matching == {i \in DOMAIN user_queries :
                            /\ user_queries[i].isDeleted = 0
                            /\ sqlNormalize(user_queries[i].prompt)
                                  = sqlNormalize(lastCall.prompt)}
        IN  IF matching = {}
            THEN ~lastCall.ok /\ lastCall.rows = <<>>
            ELSE /\ lastCall.ok
                 /\ \E i \in matching :
                       /\ \A j \in matching : j <= i
                       /\ lastCall.rows = <<user_queries[i]>>

\* C19: from its insertion until it is purged a Query row keeps the
\* queryId, prompt, answer and createdAt it was inserted with, whatever
\* feedback updates, soft deletes, listings and lookups happen.
C19_PromptAndAnswerNeverChange ==
    [][\/ user_queries' = <<>>
       \/ /\ Len(user_queries') >= Len(user_queries)
          /\ \A i \in DOMAIN user_queries :
                /\ user_queries'[i].queryId = user_queries[i].queryId
                /\ user_queries'[i].prompt = user_queries[i].prompt
                /\ user_queries'[i].answer = user_queries[i].answer
                /\ user_queries'[i].createdAt = user_queries[i].createdAt
      ]_vars

\* a listing after a row got feedback and was soft-deleted one second after
\* its insertion
C19_Witness ==
    /\ lastCall.op = "getAllQueries"
    /\ clock = 1
    /\ \E r \in tableRow(1) :
          /\ r.liked = 1
          /\ r.isDeleted = 1
          /\ r.createdAt = 0
          /\ r.prompt = <<" ", "A">>
          /\ r.answer = "x"

(***************************************************************************)
(* Claims about the fingerprint.                                           *)
(***************************************************************************)
\* C20: the fingerprint is deterministic and size-sensitive: two
\* computations for the same basename and size give the same id, and two
\* computations for the same basename and different sizes give different
\* ids.
C20_FingerprintSizeSensitive ==
    \A a, b \in {g \in generatedIds : g.onDisk} :
        a.fileName = b.fileName =>
            /\ a.fileSize = b.fileSize => a.id = b.id
            /\ a.fileSize # b.fileSize => a.id # b.id

(***************************************************************************)
(* Claims about the upload.                                                *)
(***************************************************************************)
\* C11: an upload of the same original name and the same bytes as an
\* earlier upload gets the embeddingDocId of the earlier Document row and
\* reuses the stored set: it makes no embedding-provider call and does not
\* write the set again.
C11_SecondUploadReusesSet ==
    (lastCall.op = "upload" /\ lastCall.ok) =>
        \A i \in DOMAIN lastCall.rows :
            lastCall.rows[i].originalName = originalnameOf(lastCall.file) =>
                /\ lastCall.embeddingDocId = lastCall.rows[i].embeddingDocId
                /\ lastCall.count = 0
                /\ ~lastCall.wrote

C22_NotFoundOnlyWhenMissing ==
    lastCall.op = "loadExistingEmbeddings" =>
        /\ ~lastCall.threw
        /\ ~lastCall.ok <=> ~fileExists(embeddingFiles[lastCall.embeddingDocId])

(***************************************************************************)
(* Claims about the prompt cache.                                          *)
(***************************************************************************)
\* the prompt lower-cased and trimmed of white space
normalized(prompt) == jsTrim(toLowerCase(prompt))

\* C23: the prompt cache is keyed by the normalized prompt: a get that
\* follows a put returns the put vector whenever the two prompts are equal
\* after lower-casing and trimming; the cache holds at most one entry per
\* normalized prompt, and a put replaces the entry of its normalized prompt.
C23_CacheKeyedByNormalizedPrompt ==
    [][/\ (/\ lastCall.op = "storePromptEmbedding"
           /\ lastCall'.op = "getStoredPromptEmbedding"
           /\ normalized(lastCall.prompt) = normalized(lastCall'.prompt)) =>
             lastCall'.ok /\ lastCall'.rows = lastCall.rows
       /\ \A d, e \in localStorage' :
             normalized(d.prompt) = normalized(e.prompt) => d = e
       /\ lastCall'.op = "storePromptEmbedding" =>
             \A e \in localStorage' :
                 normalized(e.prompt) = normalized(lastCall'.prompt) =>
                     e.embedding = lastCall'.rows /\ e.prompt = lastCall'.prompt
      ]_vars

\* a get with " A" returns the vector that was put with a tab before "a",
\* while the cache holds one more entry
C23_Witness ==
    /\ lastCall.op = "getStoredPromptEmbedding"
    /\ lastCall.prompt = <<" ", "A">>
    /\ lastCall.ok
    /\ lastCall.rows = providerEmbedding("t1")
    /\ \E e \in localStorage : e.prompt = <<"\t", "a">>
    /\ Cardinality(localStorage) = 2

\* C24: in the prompt-embedding step of a non-cached question the embedding
\* provider is called if and only if the prompt cache has no entry for the
\* normalized prompt; on a miss it is called exactly once, and when the step
\* ends the cache holds the vector the step returned.
C24_ProviderCalledExactlyOnMiss ==
    \A s \in RSlots :
        rag[s].pc = "embedded" =>
            /\ rag[s].embedCalls = rag[s].cacheWrites
            /\ rag[s].embedCalls <= 1
            /\ \A e \in getStoredPromptEmbedding(localStorage, rag[s].userPrompt) :
                  rag[s].cacheWrites = 1 => e.embedding = rag[s].promptEmbedding

\* a comes before b in the ranking: higher score, or equal score and lower
\* chunkIndex
rankedBefore(a, b) ==
    \/ scoreGreater(a.similarityScore, b.similarityScore)
    \/ /\ ~scoreGreater(b.similarityScore, a.similarityScore)
       /\ a.chunkIndex < b.chunkIndex

\* C25: the ranking returns the first min(k, n) candidates in the order of
\* descending cosine score with ties broken by ascending chunkIndex, for
\* every order of the supplied candidate list and every k, and never more
\* than k results.
C25_TopKDescendingTiesByChunkIndex ==
    lastCall.op = "selectTopSimilarChunks" =>
        LET scored == lastCall.rows
            top == lastCall.result
            n == Len(scored)
        IN  /\ Len(top) <= lastCall.count
            /\ Len(top) = (IF n < lastCall.count THEN n ELSE lastCall.count)
            /\ \A i \in DOMAIN top : \E j \in DOMAIN scored : top[i] = scored[j]
            /\ \A i, j \in DOMAIN top : i < j => rankedBefore(top[i], top[j])
            /\ \A j \in DOMAIN scored :
                  (\A i \in DOMAIN top : top[i] # scored[j]) =>
                      \A i \in DOMAIN top : rankedBefore(top[i], scored[j])

\* C26: a scoring failure on a single candidate makes the similarity-search
\* call fail with an error; the call does not return a normal result then.
C26_ScoringFailureFailsTheCall ==
    (lastCall.op = "findTopSimilarChunks" /\ lastCall.threw) => ~lastCall.ok

\* C27: similarity search returns an empty result, no error and no results
\* taken from elsewhere, whenever the candidate list of the call is empty
\* or the query vector is missing or empty.
C27_EmptyInputsGiveEmptyResult ==
    (/\ lastCall.op = "findTopSimilarChunks"
     /\ (Len(lastCall.candidates) = 0 \/ Len(lastCall.promptEmbedding) = 0)) =>
        /\ lastCall.ok
        /\ lastCall.result = <<>>
        /\ lastCall.rows = <<>>

\* the words of a chunk: its pieces between spaces, without the empty ones
wordsOf(chunk) == SelectSeq(splitWords(chunk), LAMBDA w : w # <<>>)

\* C28: for every text and every maxSize each returned chunk has length at
\* most maxSize, except a chunk that consists of one single word which is
\* itself longer than maxSize.
C28_ChunkLengthBounded ==
    lastCall.op = "createTextChunks" =>
        \A i \in DOMAIN lastCall.chunks :
            \/ Len(lastCall.chunks[i]) <= lastCall.count
            \/ Len(wordsOf(lastCall.chunks[i])) = 1

\* the characters of a text that are neither white space nor separators
contentOf(text) ==
    SelectSeq(text, LAMBDA ch : ch \notin Separators \cup {" ", "\t", "\n"})

RECURSIVE concatenation(_)
concatenation(chunks) ==
    IF chunks = <<>> THEN <<>> ELSE Head(chunks) \o concatenation(Tail(chunks))

\* C29: the chunker loses and reorders nothing: the characters of the input
\* that are neither white space nor sentence separators appear in the
\* concatenation of the returned chunks in the same order and number, and
\* the chunks hold no other characters than these, white space and
\* separators.
C29_ContentPreserved ==
    lastCall.op = "createTextChunks" =>
        contentOf(concatenation(lastCall.chunks)) = contentOf(lastCall.prompt)

\* a call on a text with a space that returned several chunks, one of them
\* two sentences joined by a reinserted separator
C29_Witness ==
    /\ lastCall.op = "createTextChunks"
    /\ Len(lastCall.chunks) >= 2
    /\ \E i \in DOMAIN lastCall.prompt : lastCall.prompt[i] = " "
    /\ \E i \in DOMAIN lastCall.chunks :
          \E k \in DOMAIN lastCall.chunks[i] : lastCall.chunks[i][k] = "."

\* the places of the input, counted in content characters, where a space
\* stands
wordBoundaries(text) ==
    { Len(contentOf(SubSeq(text, 1, k))) :
        k \in {m \in DOMAIN text : text[m] = " "} }

\* the places, counted in content characters, where one chunk ends and the
\* next begins
chunkBoundaries(chunks) ==
    { Len(contentOf(concatenation(SubSeq(chunks, 1, i)))) :
        i \in 1..(Len(chunks) - 1) }

\* C30: the chunker never splits inside a word: no chunk ends between two
\* characters of the input that belong to one maximal run without a space,
\* also on the word-level path for a sentence longer than maxSize.
C30_NeverSplitsInsideAWord ==
    lastCall.op = "createTextChunks" =>
        \A b \in chunkBoundaries(lastCall.chunks) :
            \/ b = 0
            \/ b = Len(contentOf(lastCall.prompt))
            \/ b \in wordBoundaries(lastCall.prompt)

\* C31: the chunker is a pure function with no buffer shared across calls:
\* a call of createTextChunks changes no process-wide state, so what
\* getTextChunks returns after the call is what it returned before.
C31_ChunkerChangesNoState ==
    [][lastCall'.op = "createTextChunks" => textChunks' = textChunks]_vars

\* C32: an insert returns the full persisted row: insertQuery(prompt,
\* answer) returns a row with a queryId different from every id already in
\* the store, the given prompt and answer, and liked = disliked = isDeleted
\* = 0; insertDocument returns the stored row with a fresh docId,
\* embeddingDocId null, totalEmbeddings 0 and isDeleted 0.
C32_InsertReturnsPersistedRow ==
    [][/\ lastCall'.op = "insertQuery" =>
            /\ lastCall'.ok
            /\ Len(lastCall'.rows) = 1
            /\ LET row == lastCall'.rows[1]
               IN  /\ \A r \in rowsOf(user_queries) : r.queryId # row.queryId
                   /\ row \in rowsOf(user_queries')
                   /\ row.prompt = lastCall'.prompt
                   /\ row.answer = lastCall'.answer
                   /\ row.liked = 0 /\ row.disliked = 0 /\ row.isDeleted = 0
       /\ lastCall'.op = "insertDocument" =>
            /\ Len(lastCall'.rows) = 1
            /\ LET row == lastCall'.rows[1]
               IN  /\ \A r \in rowsOf(documents) : r.docId # row.docId
                   /\ row \in rowsOf(documents')
                   /\ row.embeddingDocId = ""
                   /\ row.totalEmbeddings = 0
                   /\ row.isDeleted = 0]_vars

\* an insertQuery of an untrimmed upper-case prompt into a table that holds
\* a soft-deleted row, with a document row stored as well
C32_Witness ==
    /\ lastCall.op = "insertQuery"
    /\ lastCall.prompt = <<" ", "A">>
    /\ \E r \in rowsOf(user_queries) : r.isDeleted = 1
    /\ documents # <<>>

\* C33: after any sequence of uploads, also uploads in which the embedding
\* provider fails part-way through the chunks, every document row with a
\* non-null embeddingDocId has a set stored under that id whose number of
\* chunks equals the row's totalEmbeddings.
C33_RowsNameStoredSets ==
    \A r \in rowsOf(documents) :
        r.embeddingDocId # "" =>
            LET stored == loadExistingEmbeddings(embeddingFiles[r.embeddingDocId])
            IN  stored[1] /\ Len(stored[2]) = r.totalEmbeddings

\* the chunks of the set a file holds, as a load numbers them
numberedChunksOf(file) ==
    [index \in DOMAIN parseChunks(file) |->
        [chunkIndex |-> index - 1, text |-> parseChunks(file)[index].text,
         embedding |-> parseChunks(file)[index].embedding]]

C35_MissingIdReportsNotFound ==
    [][(/\ lastCall'.op \in {"updateQueryFeedback", "deleteQuery"}
        /\ ~\E r \in rowsOf(user_queries) :
              r.queryId = lastCall'.queryId /\ r.isDeleted = 0)
       => /\ lastCall'.ok = FALSE
          /\ user_queries' = user_queries]_vars

\* a feedback update that names a soft-deleted row and was answered
\* not-found
C35_Witness ==
    /\ lastCall.op = "updateQueryFeedback"
    /\ lastCall.liked = "true"
    /\ ~lastCall.ok
    /\ \E r \in rowsOf(user_queries) :
          r.queryId = lastCall.queryId /\ r.isDeleted = 1

\* the active row of a query id, as a set of at most one row
activeRow(table, id) ==
    {r \in rowsOf(table) : r.queryId = id /\ r.isDeleted = 0}

\* C36: the liked and disliked flags are stored independently and both can
\* be true at once: a feedback update {liked: true} followed by a feedback
\* update {disliked: true} on the same active row leaves the row with
\* liked = 1 and disliked = 1.  The second update is a step from a state
\* whose last call was the first one.
C36_LikedAndDislikedIndependent ==
    [][(/\ lastCall.op = "updateQueryFeedback"
        /\ lastCall.liked = "true" /\ lastCall.disliked = "undefined"
        /\ lastCall.ok
        /\ lastCall'.op = "updateQueryFeedback"
        /\ lastCall'.liked = "undefined" /\ lastCall'.disliked = "true"
        /\ lastCall'.queryId = lastCall.queryId)
       => /\ lastCall'.ok
          /\ activeRow(user_queries', lastCall'.queryId) # {}
          /\ \A r \in activeRow(user_queries', lastCall'.queryId) :
                r.liked = 1 /\ r.disliked = 1]_vars

\* a {disliked: true} update has just been applied to an active row that
\* was liked, and the row holds both flags
C36_Witness ==
    /\ lastCall.op = "updateQueryFeedback"
    /\ lastCall.liked = "undefined" /\ lastCall.disliked = "true"
    /\ lastCall.ok
    /\ \E r \in activeRow(user_queries, lastCall.queryId) :
          r.liked = 1 /\ r.disliked = 1

\* the stored text holds, for every chunk of the list, one entry with the
\* chunk's text and a vector
completeSet(text, chunks) ==
    /\ parseable(text)
    /\ Len(parseChunks(text)) = Len(chunks)
    /\ \A i \in DOMAIN chunks :
          /\ parseChunks(text)[i].text = chunks[i]
          /\ parseChunks(text)[i].embedding # <<>>

hitStep ==
    /\ startStep
    /\ rag' = rag
    /\ findQueryByPrompt(user_queries, returned'.userPrompt) # {}

\* C38: for a prompt with an exact-match hit the result of processPrompt is
\* the same for every docId argument, an unknown, soft-deleted or
\* unprocessed document included: the call returns the cached answer and
\* queryId with cached = true, and the very same step is a step of the call
\* with each of the other document references.
C38_HitIndependentOfDocId ==
    [][hitStep =>
          /\ returned'.pc = "done"
          /\ returned'.cached
          /\ \E r \in findQueryByPrompt(user_queries, returned'.userPrompt) :
                r.queryId = returned'.queryId /\ r.answer = returned'.answer
          /\ documents' = documents
          /\ \A docId \in HitRefs :
                \E s \in RSlots :
                   processPromptStart(s, returned'.userPrompt, docId)]_vars

\* a cached answer was returned while rows of a soft-deleted and of an
\* unprocessed document are stored
C38_Witness ==
    /\ returned.pc = "done"
    /\ returned.cached
    /\ returned.userPrompt = <<" ", "A">>
    /\ \E r \in rowOfId(returned.queryId) : r.prompt = <<"a">>
    /\ \E d \in rowsOf(documents) : d.isDeleted = 1
    /\ \E d \in rowsOf(documents) : d.isDeleted = 0 /\ d.embeddingDocId = ""

\* C39: whenever the upload handler answers with failure, the Document
\* Store holds no row for that upload and the stored upload has been
\* removed; whenever it answers with success, exactly one document row was
\* added for the upload, and that row has processedAt set.
C39_UploadAnswerMatchesStore ==
    [][(lastCall'.op = "upload" /\ lastCall' # lastCall) =>
          IF lastCall'.ok
          THEN /\ Len(documents') = Len(documents) + 1
               /\ SubSeq(documents', 1, Len(documents)) = documents
               /\ LET row == documents'[Len(documents')]
                  IN  /\ row.docId = lastCall'.docId
                      /\ row.storedFileName = lastCall'.file
                      /\ row.isDeleted = 0
                      /\ row.processedAt # ""
          ELSE /\ documents' = documents
               /\ lastCall'.file \notin uploadedFiles']_vars

====
